---- MODULE Spec2Model ----
(***************************************************************************)
(* Replica map management of the DIRAC CWL executor                        *)
(* (src/src/dirac_cwl/job/executor): the executor's job loop, the          *)
(* preparation of a step replica map, the merge of a step replica map      *)
(* into the global replica map, the LFN-resolving file access and path     *)
(* mapper, and the final write of the global replica map by the CLI.       *)
(***************************************************************************)
EXTENDS Integers, Sequences, FiniteSets, TLC

\* ------------------------------------------------------------------ bounds
\* Number of jobs the job iterator hands to run_jobs in one run.
MaxJobs == 2
\* Number of File objects in a job's input dictionary.
MaxInputs == 2
\* Number of merges applied to each accumulator of the merge bench.
MaxLabMerges == 2
\* Number of times run_jobs is called on one executor.
MaxRunJobsCalls == 2
\* Nesting depth of the values of a job's input dictionary.
MaxDepth == 2
\* Number of replicas of a replica map entry.
MaxReplicas == 2

\* The largest value of a resourceMin or resourceMax.
MaxResource == 2

\* The longest list of pre-process or post-process commands.
MaxCommands == 3

\* The most records a job report accumulates, and the last clock reading.
MaxRecords == 3

\* The longest list of output types.
MaxOutputTypes == 2

\* ------------------------------------------------------------ data model
\* Catalog keys (bare LFNs) and the reference strings the model uses.
\* Strings are opaque in TLA+, so the "LFN:" marker is a table.
Keys == {"a", "b"}

\* Names of the output files a working directory can hold.
OutputNames == {"p.sim", "p.SIM", "p.digi"}

LfnNames == Keys \cup OutputNames

LfnRef(k) ==
  CASE k = "a" -> "LFN:a"
    [] k = "p.sim" -> "LFN:p.sim"
    [] k = "p.SIM" -> "LFN:p.SIM"
    [] k = "p.digi" -> "LFN:p.digi"
    [] OTHER -> "LFN:b"

LocalRefs == {"in.txt"}

Refs == {LfnRef(k) : k \in Keys} \cup LocalRefs

\* str.startswith("LFN:")
StartsWithLFN(s) == \E k \in LfnNames : s = LfnRef(k)

\* value[4:] / str.removeprefix("LFN:")
StripLFN(s) == IF StartsWithLFN(s) THEN CHOOSE k \in LfnNames : s = LfnRef(k) ELSE s

\* ReplicaMap.MapEntry values: replicas is an ordered list of urls,
\* size_bytes is optional (0 stands for None, sizes are positive here).
UrlLocal == [scheme |-> "file", path |-> "/data/f1"]

UrlRemote == [scheme |-> "root", path |-> "//server/r1"]

EntryLocal == [replicas |-> <<UrlLocal>>, size_bytes |-> 0]

EntryRemote == [replicas |-> <<UrlRemote>>, size_bytes |-> 7]

EntryNoReplicas == [replicas |-> <<>>, size_bytes |-> 0]

Entries == {EntryLocal, EntryRemote, EntryNoReplicas}

\* ReplicaMap.root : dict[str, MapEntry]
Catalogs == UNION {[D -> Entries] : D \in SUBSET Keys}

EmptyMap == [k \in {} |-> EntryLocal]

\* dict item assignment  root[lfn] = entry
Put(m, k, v) == [x \in (DOMAIN m) \cup {k} |-> IF x = k THEN v ELSE m[x]]

\* A JSON document on disk: absent, malformed, or a set of (key, entry)
\* items.  model_dump_json writes the items, model_validate_json rebuilds
\* the mapping from them.
NoFile == [state |-> "absent", items |-> {}]

BadFile == [state |-> "malformed", items |-> {}]

model_dump_json(m) == [state |-> "valid", items |-> {<<k, m[k]>> : k \in DOMAIN m}]

model_validate_json(f) ==
  [k \in {it[1] : it \in f.items} |-> (CHOOSE it \in f.items : it[1] = k)[2]]

Documents == {NoFile, BadFile} \cup {model_dump_json(m) : m \in Catalogs}

\* ------------------------------------------------------------ the merge
\* Faulty variants of the merge loop's body: an existing entry is never
\* overwritten; an unchanged entry is reported as updated; an existing
\* entry is overwritten only when it has no replicas; a new entry
\* replaces the whole map.
MergeEntryKeepExisting(G, lfn, entry) ==
  IF lfn \in DOMAIN G
    THEN [map |-> G, kind |-> "skip"]
    ELSE [map |-> Put(G, lfn, entry), kind |-> "new"]

MergeEntryCountsSkips(G, lfn, entry) ==
  IF lfn \in DOMAIN G
    THEN [map |-> Put(G, lfn, entry), kind |-> "updated"]
    ELSE [map |-> Put(G, lfn, entry), kind |-> "new"]

MergeEntryFirstWins(G, lfn, entry) ==
  IF lfn \in DOMAIN G
    THEN IF G[lfn] # entry /\ G[lfn] = EntryNoReplicas
           THEN [map |-> Put(G, lfn, entry), kind |-> "updated"]
           ELSE [map |-> G, kind |-> "skip"]
    ELSE [map |-> Put(G, lfn, entry), kind |-> "new"]

MergeEntryReplaces(G, lfn, entry) ==
  IF lfn \in DOMAIN G
    THEN IF G[lfn] # entry
           THEN [map |-> Put(G, lfn, entry), kind |-> "updated"]
           ELSE [map |-> G, kind |-> "skip"]
    ELSE [map |-> [x \in {lfn} |-> entry], kind |-> "new"]

\* Body of the merge loop for one (lfn, entry) item of the step map.
MergeEntry(G, lfn, entry) ==
  IF lfn \in DOMAIN G
    THEN IF G[lfn] # entry
           THEN [map |-> Put(G, lfn, entry), kind |-> "updated"]
           ELSE [map |-> G, kind |-> "skip"]
    ELSE [map |-> Put(G, lfn, entry), kind |-> "new"]

\* The for loop over step_replica_map.root.items(): todo is the set of
\* keys not yet visited; new_entries / updated_entries are the two lists.
RECURSIVE MergeLoop(_, _, _, _, _)
MergeLoop(G, S, todo, new_entries, updated_entries) ==
  IF todo = {}
    THEN [map |-> G, new_entries |-> new_entries, updated_entries |-> updated_entries]
    ELSE LET lfn == CHOOSE k \in todo : TRUE
             r == MergeEntry(G, lfn, S[lfn])
         IN MergeLoop(r.map, S, todo \ {lfn},
                      IF r.kind = "new" THEN Append(new_entries, lfn) ELSE new_entries,
                      IF r.kind = "updated" THEN Append(updated_entries, lfn)
                                            ELSE updated_entries)

\* The whole merge of a parsed step map S into the global map G.
MergeFrom(G, S) == MergeLoop(G, S, DOMAIN S, <<>>, <<>>)

Range(s) == {s[i] : i \in 1..Len(s)}

\* ------------------------------------------------------ job inputs
\* A value of a job's input dictionary (job.builder.job): a dict with a
\* class (File, Directory), a dict without one ("record") or a list.
\* values holds what the value contains: the secondaryFiles of a File,
\* the listing of a Directory, the values of a record, the items of a
\* list.
FileObjs ==
  {[class |-> "File", path |-> "", location |-> LfnRef("a"), values |-> <<>>],
   [class |-> "File", path |-> LfnRef("b"), location |-> "in.txt", values |-> <<>>],
   [class |-> "File", path |-> "", location |-> "in.txt", values |-> <<>>]}

RECURSIVE SeqsUpTo(_, _)
SeqsUpTo(S, n) ==
  IF n = 0 THEN {<<>>}
  ELSE LET shorter == SeqsUpTo(S, n - 1)
       IN shorter \cup {Append(q, x) : q \in {r \in shorter : Len(r) = n - 1}, x \in S}

JobOrders == SeqsUpTo(FileObjs, MaxInputs)

\* The loop over ["path", "location"] of one File object: the first field
\* that starts with "LFN:" gives the key, with the marker stripped.
FileLfn(obj) ==
  IF StartsWithLFN(obj.path) THEN <<StripLFN(obj.path)>>
  ELSE IF StartsWithLFN(obj.location) THEN <<StripLFN(obj.location)>>
  ELSE <<>>

\* extract_recursive(obj): a File dict gives its key (if it has one and
\* the key is not yet in lfns) and is not looked into; any other dict and
\* a list are searched value by value.  extract_each is the for loop.
RECURSIVE extract_recursive(_, _)
RECURSIVE extract_each(_, _, _)
extract_recursive(obj, lfns) ==
  IF obj.class = "File"
    THEN LET found == FileLfn(obj)
         IN IF found # <<>> /\ found[1] \notin Range(lfns)
              THEN Append(lfns, found[1]) ELSE lfns
    ELSE extract_each(obj.values, 1, lfns)

extract_each(items, i, lfns) ==
  IF i > Len(items) THEN lfns
  ELSE extract_each(items, i + 1, extract_recursive(items[i], lfns))

\* job_order is the sequence of the values of the input dictionary.
_extract_lfns_from_inputs(job_order) ==
  extract_recursive([class |-> "record", path |-> "", location |-> "",
                     values |-> job_order], <<>>)

\* Nested input values up to a depth: a File with secondaryFiles, a
\* Directory with a listing, a record or a list, holding one nested value
\* and at most one File object beside it.
ChildSeqs(inner) ==
  {<<v>> : v \in inner}
    \cup {<<v, f>> : v \in inner, f \in FileObjs}
    \cup {<<f, v>> : f \in FileObjs, v \in inner}

RECURSIVE NestedValues(_)
NestedValues(d) ==
  IF d = 0 THEN FileObjs
  ELSE LET children == ChildSeqs(NestedValues(d - 1))
       IN FileObjs
            \cup {[f EXCEPT !.values = c] : f \in FileObjs, c \in children}
            \cup {[class |-> k, path |-> "", location |-> "", values |-> c] :
                     k \in {"Directory", "record", "list"}, c \in children}

\* bool(ReplicaMap): ReplicaMap comes from diracx; whether an empty map is
\* falsy is not decided by this repository, so the caller supplies it.
Truthy(gm, empty_is_truthy) ==
  /\ ~gm.is_none
  /\ (DOMAIN gm.root # {} \/ empty_is_truthy)

\* Faulty variant: the whole global map is handed to the step.
FilterAllGlobal(step_lfns, gm, empty_is_truthy) ==
  IF step_lfns # <<>> /\ Truthy(gm, empty_is_truthy) THEN gm.root ELSE EmptyMap

\* Faulty variant: when none of the step's LFNs is found, the step gets
\* the whole global map.
FilterFallsBackToGlobal(step_lfns, gm, empty_is_truthy) ==
  IF step_lfns # <<>> /\ Truthy(gm, empty_is_truthy)
    THEN LET found == [lfn \in {k \in DOMAIN gm.root : k \in Range(step_lfns)} |->
                         gm.root[lfn]]
         IN IF Cardinality(DOMAIN found) > 0 THEN found ELSE gm.root
    ELSE EmptyMap

\* The step replica map _prepare_job_replica_map builds.
FilterGlobalMap(step_lfns, gm, empty_is_truthy) ==
  IF step_lfns # <<>> /\ Truthy(gm, empty_is_truthy)
    THEN LET found == [lfn \in {k \in DOMAIN gm.root : k \in Range(step_lfns)} |->
                         gm.root[lfn]]
         IN IF Cardinality(DOMAIN found) > 0 THEN found ELSE EmptyMap
    ELSE EmptyMap

\* --------------------------------------------------------- file access
\* The paths of the local filesystem an access to ref can depend on: the
\* replica's path and the bare name of the reference.
PathsOf(ref) == {UrlLocal.path, StripLFN(ref)}

UrlStr(url) == <<url.scheme, url.path>>

\* Faulty variant: a local replica resolves to the bare name, not its path.
_resolve_lfn_keeps_name(replica_map, lfn) ==
  LET clean_lfn == StripLFN(lfn)
  IN IF clean_lfn \in DOMAIN replica_map /\ replica_map[clean_lfn].replicas # <<>>
       THEN LET url == replica_map[clean_lfn].replicas[1]
                is_remote == url.scheme # "file"
            IN [pfn |-> IF is_remote THEN UrlStr(url) ELSE clean_lfn,
                is_remote |-> is_remote, found |-> TRUE]
       ELSE [pfn |-> clean_lfn, is_remote |-> FALSE, found |-> FALSE]

\* Faulty variant: the last replica of the entry is used.
_resolve_lfn_last_replica(replica_map, lfn) ==
  LET clean_lfn == StripLFN(lfn)
  IN IF clean_lfn \in DOMAIN replica_map /\ replica_map[clean_lfn].replicas # <<>>
       THEN LET url == replica_map[clean_lfn].replicas[Len(replica_map[clean_lfn].replicas)]
                is_remote == url.scheme # "file"
            IN [pfn |-> IF is_remote THEN UrlStr(url) ELSE url.path,
                is_remote |-> is_remote, found |-> TRUE]
       ELSE [pfn |-> clean_lfn, is_remote |-> FALSE, found |-> FALSE]

\* DiracReplicaMapFsAccess._resolve_lfn: (physical path or URL, is_remote);
\* found tells whether the replica map gave the answer.
_resolve_lfn(replica_map, lfn) ==
  LET clean_lfn == StripLFN(lfn)
  IN IF clean_lfn \in DOMAIN replica_map /\ replica_map[clean_lfn].replicas # <<>>
       THEN LET url == replica_map[clean_lfn].replicas[1]
                is_remote == url.scheme # "file"
            IN [pfn |-> IF is_remote THEN UrlStr(url) ELSE url.path,
                is_remote |-> is_remote, found |-> TRUE]
       ELSE [pfn |-> clean_lfn, is_remote |-> FALSE, found |-> FALSE]

\* Faulty variant: an LFN the replica map does not resolve does not exist.
FsExistsResolvedOnly(replica_map, fn, disk) ==
  IF StartsWithLFN(fn)
    THEN LET r == _resolve_lfn(replica_map, fn)
         IN IF r.is_remote THEN TRUE ELSE r.found /\ r.pfn \in disk
    ELSE fn \in disk

\* DiracReplicaMapFsAccess.exists on a filesystem holding the paths disk.
FsExists(replica_map, fn, disk) ==
  IF StartsWithLFN(fn)
    THEN LET r == _resolve_lfn(replica_map, fn)
         IN IF r.is_remote THEN TRUE ELSE r.pfn \in disk
    ELSE fn \in disk

\* DiracPathMapper.visit of a File object with this location: "direct"
\* when it maps the location to the PFN with staged=False, "standard"
\* when it falls through to PathMapper.visit.
PathMapperVisitKind(replica_map, tgt) ==
  IF StartsWithLFN(tgt)
       /\ StripLFN(tgt) \in DOMAIN replica_map
       /\ replica_map[StripLFN(tgt)].replicas # <<>>
    THEN "direct"
    ELSE "standard"

\* --------------------------------------------------------- path mapper
\* Locations that are URLs, and the "scheme://" each one starts with
\* ("" for a location that is no URL).
PmUrls ==
  {"root://h/f", "xroot://h/f", "https://h/f", "http://h/f", "s3://h/f", "file:///f"}

UrlPrefix(tgt) ==
  CASE tgt = "root://h/f" -> "root://"
    [] tgt = "xroot://h/f" -> "xroot://"
    [] tgt = "https://h/f" -> "https://"
    [] tgt = "http://h/f" -> "http://"
    [] tgt = "s3://h/f" -> "s3://"
    [] tgt = "file:///f" -> "file://"
    [] OTHER -> ""

\* Faulty variant: every URL that is not a file URL counts as remote.
HasNonFilePrefix(tgt) == UrlPrefix(tgt) \notin {"", "file://"}

\* any(tgt.startswith(scheme) for scheme in ("root://", "xroot://",
\* "https://", "http://"))
HasRemotePrefix(tgt) ==
  \E scheme \in {"root://", "xroot://", "https://", "http://"} : UrlPrefix(tgt) = scheme

PmLocations == {LfnRef(k) : k \in Keys} \cup PmUrls \cup LocalRefs

\* The objects a path mapper visits: a File or a Directory with a
\* location; values holds the secondaryFiles of a File.
PmLeaves ==
  {[class |-> "File", location |-> l, values |-> <<>>] : l \in PmLocations}
    \cup {[class |-> "Directory", location |-> LfnRef("a"), values |-> <<>>]}

PmObjs ==
  PmLeaves \cup {[o EXCEPT !.values = <<c>>] :
                   o \in {x \in PmLeaves : x.class = "File"}, c \in PmLeaves}

MapperEnt(resolved, target, type, staged) ==
  [resolved |-> resolved, target |-> target, type |-> type, staged |-> staged]

\* The state a visit works on: self._pathmap, the levels of the records
\* logged, and the objects handed to PathMapper.visit.
PmState(pathmap, log, standard) ==
  [pathmap |-> pathmap, log |-> log, standard |-> standard]

PmLogged(st, level) == [st EXCEPT !.log = st.log \cup {level}]

PmMapped(st, tgt, ent) ==
  [st EXCEPT !.pathmap =
     [l \in (DOMAIN st.pathmap) \cup {tgt} |-> IF l = tgt THEN ent ELSE st.pathmap[l]]]

\* Faulty variant: the location of an LFN that does not resolve is
\* mapped to itself, not staged.
UnresolvedLfnMapped(st, tgt, level) ==
  PmMapped(PmLogged(st, level), tgt,
           MapperEnt(<<"location", tgt>>, <<"location", tgt>>, "File", FALSE))

\* The LFN is not in the replica map (logger.error) or its entry has no
\* replicas (logger.warning): the visit goes on with the checks below.
UnresolvedLfn(st, tgt, level) == PmLogged(st, level)

\* DiracPathMapper.visit, and visitlisting / PathMapper.visit of the
\* engine, which call back into it for every object they hold.
\* PathMapper.visit returns at once for a location already mapped, else
\* maps the location to a path in the staging directory with the staged
\* flag it was given.
RECURSIVE visit(_, _, _, _)
RECURSIVE visitlisting(_, _, _, _, _)
RECURSIVE PathMapperVisit(_, _, _, _)
visit(st, replica_map, obj, staged) ==
  LET tgt == obj.location
      lfn == StripLFN(tgt)
      is_lfn_file == StartsWithLFN(tgt) /\ obj.class = "File"
  IN IF is_lfn_file /\ lfn \in DOMAIN replica_map /\ replica_map[lfn].replicas # <<>>
       THEN LET pfn == UrlStr(replica_map[lfn].replicas[1])
            IN visitlisting(PmMapped(PmLogged(st, "info"), tgt,
                                     MapperEnt(pfn, pfn, "File", FALSE)),
                            replica_map, obj.values, 1, staged)
       ELSE LET st1 == IF is_lfn_file
                         THEN UnresolvedLfn(st, tgt,
                                IF lfn \in DOMAIN replica_map THEN "warning" ELSE "error")
                         ELSE st
            IN IF obj.class = "File" /\ HasRemotePrefix(tgt)
                 THEN visitlisting(
                        PmMapped(PmLogged(st1, "info"), tgt,
                                 MapperEnt(<<"location", tgt>>, <<"location", tgt>>,
                                           "File", FALSE)),
                        replica_map, obj.values, 1, staged)
                 ELSE PathMapperVisit(st1, replica_map, obj, staged)

visitlisting(st, replica_map, listing, i, staged) ==
  IF i > Len(listing) THEN st
  ELSE visitlisting(visit(st, replica_map, listing[i], staged),
                    replica_map, listing, i + 1, staged)

PathMapperVisit(st, replica_map, obj, staged) ==
  LET tgt == obj.location
      handed == [st EXCEPT !.standard = st.standard \cup {<<obj.class, tgt>>}]
  IN IF tgt \in DOMAIN st.pathmap
       THEN handed
       ELSE visitlisting(
              PmMapped(handed, tgt,
                       MapperEnt(<<"abspath", tgt>>, <<"stagedir", tgt>>, obj.class, staged)),
              replica_map, obj.values, 1, staged)

\* The file access bench: replica map entries with up to MaxReplicas
\* replicas, and a local filesystem.
UrlLocal2 == [scheme |-> "file", path |-> "/data/f2"]

FsUrls == {UrlLocal, UrlLocal2, UrlRemote}

FsEntries ==
  [replicas : SeqsUpTo(FsUrls, MaxReplicas), size_bytes : {0, 7}]

\* The bench binds a replica map that may hold key "a"; key "b" is absent.
FsCatalogs == {EmptyMap} \cup {[k \in {"a"} |-> e] : e \in FsEntries}

FsRefs == {LfnRef(k) : k \in Keys}

\* The local filesystem: what is at each path (nothing, a file, a
\* directory) and the st_size os.stat reports for it.
FsPaths == {UrlLocal.path, UrlLocal2.path} \cup Keys

FsNodes ==
  {[kind |-> "absent", size |-> 0], [kind |-> "file", size |-> 5],
   [kind |-> "dir", size |-> 9]}

FsDisks == [FsPaths -> FsNodes]

DiskKind(disk, p) == disk[p].kind

\* os.path.exists over the whole filesystem: the set of paths that exist.
DiskPaths(disk) == {p \in DOMAIN disk : disk[p].kind # "absent"}

\* The result of a call of the file access object.
FsResult(raises, yes, n, names) ==
  [raises |-> raises, yes |-> yes, n |-> n, names |-> names]

FsBool(b) == FsResult("none", b, 0, <<>>)

FsRaise(e) == FsResult(e, FALSE, 0, <<>>)

\* DiracReplicaMapFsAccess.isdir
FsIsdir(replica_map, fn, disk) ==
  IF StartsWithLFN(fn) THEN FALSE ELSE DiskKind(disk, fn) = "dir"

\* DiracReplicaMapFsAccess.open for reading: super().open raises OSError
\* when there is no file at the path.
FsOpen(replica_map, fn, disk) ==
  LET r == _resolve_lfn(replica_map, fn)
      p == IF StartsWithLFN(fn) THEN r.pfn ELSE fn
  IN IF StartsWithLFN(fn) /\ r.is_remote
       THEN FsRaise("ValueError")
       ELSE IF DiskKind(disk, p) = "file" THEN FsBool(TRUE) ELSE FsRaise("OSError")

\* Faulty variant: a remote LFN is looked for on the local filesystem.
FsGlobChecksDisk(replica_map, pattern, disk) ==
  IF StripLFN(pattern) \in DiskPaths(disk)
    THEN FsResult("none", TRUE, 0, <<pattern>>)
    ELSE FsResult("none", FALSE, 0, <<>>)

\* DiracReplicaMapFsAccess.glob
FsGlob(replica_map, pattern, disk) ==
  LET r == _resolve_lfn(replica_map, pattern)
      p == IF StartsWithLFN(pattern) THEN r.pfn ELSE pattern
  IN IF StartsWithLFN(pattern) /\ r.is_remote
       THEN FsResult("none", TRUE, 0, <<pattern>>)
       ELSE IF p \in DiskPaths(disk)
              THEN FsResult("none", TRUE, 0, <<pattern>>)
              ELSE FsResult("none", FALSE, 0, <<>>)

\* os.stat(path).st_size
StatSize(disk, p) ==
  IF DiskKind(disk, p) = "absent"
    THEN FsRaise("OSError")
    ELSE FsResult("none", TRUE, disk[p].size, <<>>)

\* Faulty variant: the size is always taken from the resolved path.
FsSizeFromDisk(replica_map, fn, disk) ==
  LET r == _resolve_lfn(replica_map, fn)
      p == IF StartsWithLFN(fn) THEN r.pfn ELSE fn
  IN IF StartsWithLFN(fn) /\ r.is_remote
       THEN FsRaise("ValueError")
       ELSE StatSize(disk, p)

\* DiracReplicaMapFsAccess.size: the entry's size_bytes when it is not
\* None, else the size of the resolved path; a remote replica raises.
FsSize(replica_map, fn, disk) ==
  LET clean_lfn == StripLFN(fn)
      r == _resolve_lfn(replica_map, fn)
      p == IF StartsWithLFN(fn) THEN r.pfn ELSE fn
  IN IF /\ StartsWithLFN(fn)
        /\ clean_lfn \in DOMAIN replica_map
        /\ replica_map[clean_lfn].size_bytes # 0
       THEN FsResult("none", TRUE, replica_map[clean_lfn].size_bytes, <<>>)
       ELSE IF StartsWithLFN(fn) /\ r.is_remote
              THEN FsRaise("ValueError")
              ELSE StatSize(disk, p)

\* ------------------------------------------------------------- variables
VARIABLES
  \* merge bench: the inputs and two accumulators the merge is applied to
  lab_G, lab_S1, lab_S2, lab_A, lab_B,
  \* position of the run: main (__main__.py) and run_jobs (executor.py)
  pc,
  \* DiracExecutor.global_map (None until run_jobs loads it)
  global_map,
  \* DiracExecutor.global_map_path and the document stored there
  global_map_path,
  \* runtime_context.validate_only
  validate_only,
  \* jobs the iterator has yielded so far, and the job of this iteration
  njobs, job,
  \* step_replica_map of the last _prepare_job_replica_map call
  step_replica_map,
  \* <job.outdir>/replica_map.json of the current job
  step_file,
  \* merge loop: items still to visit, and the two report lists
  merge_todo, new_entries, updated_entries,
  \* the latest file access made for the current job
  last_access,
  \* outcome: a job ended permanentFail / the iterator yielded None,
  \* the error run_jobs raised, cwltool's exit code, the final write
  job_failed, run_jobs_error, exit_code, final_write, final_file,
  \* history: events of the current job, entries merged so far (last
  \* writer per key), merges begun and not yet ended, merges ended
  evlog, merged_entries, merging, merges_done,
  \* calls of run_jobs on this executor so far
  run_jobs_calls,
  \* extraction bench: an input dictionary and the LFNs extracted from it
  ex_job_order, ex_lfns,
  \* file access bench: the bound replica map, the local filesystem and
  \* the latest call of the file access object
  fs_replica_map, fs_disk, fs_call,
  \* path mapper bench: a DiracPathMapper and the File object it visits
  pm,
  \* registry bench: an InputDatasetPluginRegistry
  reg,
  \* resource bench: a workflow and the outcome of its validation
  req,
  \* job wrapper bench: the commands of a hook and their execution
  jw,
  \* job report bench: a JobReport and its status client
  jr,
  \* output bench: the replica map add_output_files_to_replica_map updates
  out

lab_vars == <<lab_G, lab_S1, lab_S2, lab_A, lab_B>>

ex_vars == <<ex_job_order, ex_lfns>>

fs_vars == <<fs_replica_map, fs_disk, fs_call>>

bench_vars == <<ex_vars, fs_vars, pm, reg, req, jw, jr, out>>

\* A bench that takes no part in a specification.
Unused == "unused"

PmIdle == pm = Unused

RegIdle == reg = Unused

ResIdle == req = Unused

JwIdle == jw = Unused

JrIdle == jr = Unused

OutIdle == out = Unused

run_vars == <<pc, global_map, global_map_path, validate_only, njobs, job,
              step_replica_map, step_file, merge_todo, new_entries,
              updated_entries, last_access, job_failed, run_jobs_error,
              exit_code, final_write, final_file, evlog, merged_entries, merging,
              merges_done, run_jobs_calls>>

vars == <<lab_vars, run_vars, bench_vars>>

\* ----------------------------------------------------------- merge bench
\* _update_replica_map_from_job applied as a function: global map G,
\* step maps S1 and S2, merged in any order into accumulators A and B.
LabAcc(G) == [map |-> G, prev |-> G, applied |-> <<>>,
              new_entries |-> <<>>, updated_entries |-> <<>>]

LabStep(i) == IF i = 1 THEN lab_S1 ELSE lab_S2

LabApply(acc, i) ==
  LET r == MergeFrom(acc.map, LabStep(i))
  IN [map |-> r.map, prev |-> acc.map, applied |-> Append(acc.applied, i),
      new_entries |-> r.new_entries, updated_entries |-> r.updated_entries]

LabIdle ==
  /\ lab_G = EmptyMap /\ lab_S1 = EmptyMap /\ lab_S2 = EmptyMap
  /\ lab_A = LabAcc(EmptyMap) /\ lab_B = LabAcc(EmptyMap)

LabInit ==
  /\ lab_G \in Catalogs /\ lab_S1 \in Catalogs /\ lab_S2 \in Catalogs
  /\ lab_A = LabAcc(lab_G) /\ lab_B = LabAcc(lab_G)

LabMergeA ==
  /\ Len(lab_A.applied) < MaxLabMerges
  /\ \E i \in 1..2 : lab_A' = LabApply(lab_A, i)
  /\ UNCHANGED <<lab_G, lab_S1, lab_S2, lab_B, run_vars, bench_vars>>

LabMergeB ==
  /\ Len(lab_B.applied) < MaxLabMerges
  /\ \E i \in 1..2 : lab_B' = LabApply(lab_B, i)
  /\ UNCHANGED <<lab_G, lab_S1, lab_S2, lab_A, run_vars, bench_vars>>

\* ------------------------------------------------------ extraction bench
\* _extract_lfns_from_inputs applied to an input dictionary of one value.
NotExtracted == [done |-> FALSE, lfns |-> <<>>]

ExIdle == ex_job_order = <<>> /\ ex_lfns = NotExtracted

ExInit ==
  /\ ex_job_order \in {<<v>> : v \in NestedValues(MaxDepth)}
  /\ ex_lfns = NotExtracted

ExtractApply ==
  /\ ~ex_lfns.done
  /\ ex_lfns' = [done |-> TRUE, lfns |-> _extract_lfns_from_inputs(ex_job_order)]
  /\ UNCHANGED <<ex_job_order, fs_vars, pm, reg, req, jw, jr, out, lab_vars, run_vars>>

\* ----------------------------------------------------- file access bench
\* The methods of DiracReplicaMapFsAccess called on an LFN reference.
NoCall == [op |-> "none", fn |-> "", pfn |-> "", is_remote |-> FALSE,
           result |-> FsBool(FALSE)]

FsIdle ==
  /\ fs_replica_map = EmptyMap
  /\ fs_disk = [p \in FsPaths |-> [kind |-> "absent", size |-> 0]]
  /\ fs_call = NoCall

FsInit ==
  /\ fs_replica_map \in FsCatalogs
  /\ fs_disk \in FsDisks
  /\ fs_call = NoCall

FsCalled(op, fn, result) ==
  /\ fs_call' = [op |-> op, fn |-> fn,
                 pfn |-> _resolve_lfn(fs_replica_map, fn).pfn,
                 is_remote |-> _resolve_lfn(fs_replica_map, fn).is_remote,
                 result |-> result]
  /\ UNCHANGED <<fs_replica_map, fs_disk, ex_vars, pm, reg, req, jw, jr, out, lab_vars, run_vars>>

FsCallResolve ==
  \E fn \in FsRefs :
    FsCalled("_resolve_lfn", fn, FsBool(_resolve_lfn(fs_replica_map, fn).found))

FsCallExists ==
  \E fn \in FsRefs :
    FsCalled("exists", fn, FsBool(FsExists(fs_replica_map, fn, DiskPaths(fs_disk))))

FsCallIsdir ==
  \E fn \in FsRefs : FsCalled("isdir", fn, FsBool(FsIsdir(fs_replica_map, fn, fs_disk)))

FsCallOpen ==
  \E fn \in FsRefs : FsCalled("open", fn, FsOpen(fs_replica_map, fn, fs_disk))

FsCallGlob ==
  \E fn \in FsRefs : FsCalled("glob", fn, FsGlob(fs_replica_map, fn, fs_disk))

FsCallSize ==
  \E fn \in FsRefs : FsCalled("size", fn, FsSize(fs_replica_map, fn, fs_disk))

\* --------------------------------------------------- path mapper bench
\* A DiracPathMapper bound to a replica map visits one object.
PmInit ==
  pm \in {[replica_map |-> m, obj |-> o, staged |-> b, done |-> FALSE,
           st |-> PmState(EmptyMap, {}, {})] :
            m \in FsCatalogs, o \in PmObjs, b \in BOOLEAN}

PmVisit ==
  /\ ~pm.done
  /\ pm' = [pm EXCEPT !.done = TRUE,
                      !.st = visit(pm.st, pm.replica_map, pm.obj, pm.staged)]
  /\ UNCHANGED <<ex_vars, fs_vars, reg, req, jw, jr, out, lab_vars, run_vars>>

\* ------------------------------------------------------- the workflow run
NoneMap == [is_none |-> TRUE, root |-> EmptyMap]

SomeMap(m) == [is_none |-> FALSE, root |-> m]

\* Replica maps a run may find at global_map_path.
SeedCatalogs == {[k \in Keys |-> IF k = "a" THEN EntryRemote ELSE EntryNoReplicas]}

GlobalMapPaths ==
  {[configured |-> FALSE, file |-> NoFile]}
    \cup {[configured |-> TRUE, file |-> f] :
            f \in {NoFile, BadFile} \cup {model_dump_json(m) : m \in SeedCatalogs}}

NoJob == [class |-> "none", outdir |-> FALSE, job_order |-> <<>>]

\* Exceptions the engine raises while the job iterator is advanced or a
\* job is run: a WorkflowException, one of its subclasses, or any other
\* exception.  cause is the exception an error was raised from.
EngineErrors ==
  {[type |-> t, msg |-> "m1", cause |-> "none"] :
     t \in {"WorkflowException", "UnsupportedRequirement", "ValidationException"}}

NoError == [type |-> "none", msg |-> "", cause |-> "none"]

\* isinstance(err, WorkflowException)
IsWorkflowException(err) == err.type \in {"WorkflowException", "UnsupportedRequirement"}

\* What run_jobs has raised: the error raised inside run_jobs and the
\* error that left run_jobs.
NoRunJobsError == [raised |-> NoError, surfaced |-> NoError]

\* Faulty variant: every error is re-raised as it is.
RunJobsExceptReraises(err) == err

\* The except clauses around the job loop: a WorkflowException is
\* re-raised, any other exception is replaced by
\* WorkflowException(str(err)) raised from it.
RunJobsExcept(err) ==
  IF IsWorkflowException(err)
    THEN err
    ELSE [type |-> "WorkflowException", msg |-> err.msg, cause |-> err.type]

\* ReplicaMap.model_validate_json raises on a document that does not parse.
ValidationError == [type |-> "ValidationError", msg |-> "m1", cause |-> "none"]

\* Faulty variant: a malformed document is read as an empty map.
LoadToleratesMalformed(path) == FALSE

\* The load of run_jobs raises: a path is configured, the file exists and
\* model_validate_json rejects its text.
LoadFails(path) == path.configured /\ path.file.state = "malformed"

\* Faulty variant: the map is read from the path at every call.
LoadGlobalMapAlways(gm, path) ==
  IF path.configured /\ path.file.state = "valid"
    THEN [is_none |-> FALSE, root |-> model_validate_json(path.file)]
    ELSE [is_none |-> FALSE, root |-> EmptyMap]

\* The load at the start of run_jobs: only while global_map is None, from
\* the file at global_map_path when there is one, else an empty map.
LoadGlobalMap(gm, path) ==
  IF gm.is_none
    THEN IF path.configured /\ path.file.state = "valid"
           THEN [is_none |-> FALSE, root |-> model_validate_json(path.file)]
           ELSE [is_none |-> FALSE, root |-> EmptyMap]
    ELSE gm

\* Faulty variant: the exception leaves _update_replica_map_from_job.
UpdateExceptReraises(err) == err

\* The except clause of _update_replica_map_from_job: the exception is
\* logged and nothing is raised.
UpdateExcept(err) == NoError

NoAccess == [op |-> "none", ref |-> "", resolved |-> FALSE, replica_on_disk |-> FALSE,
             name_on_disk |-> FALSE, result |-> "none"]

RunInit ==
  /\ pc = "main"
  /\ global_map = NoneMap
  /\ global_map_path \in GlobalMapPaths
  /\ validate_only \in BOOLEAN
  /\ njobs = 0
  /\ job = NoJob
  /\ step_replica_map = EmptyMap
  /\ step_file = NoFile
  /\ merge_todo = {}
  /\ new_entries = <<>>
  /\ updated_entries = <<>>
  /\ last_access = NoAccess
  /\ job_failed = FALSE
  /\ run_jobs_error = NoRunJobsError
  /\ exit_code = -1
  /\ final_write = "none"
  /\ final_file = NoFile
  /\ evlog = <<>>
  /\ merged_entries = EmptyMap
  /\ merging = 0
  /\ merges_done = 0
  /\ run_jobs_calls = 0

RunIdle ==
  /\ pc = "idle"
  /\ global_map = NoneMap
  /\ global_map_path = [configured |-> FALSE, file |-> NoFile]
  /\ validate_only = FALSE
  /\ njobs = 0
  /\ job = NoJob
  /\ step_replica_map = EmptyMap
  /\ step_file = NoFile
  /\ merge_todo = {}
  /\ new_entries = <<>>
  /\ updated_entries = <<>>
  /\ last_access = NoAccess
  /\ job_failed = FALSE
  /\ run_jobs_error = NoRunJobsError
  /\ exit_code = -1
  /\ final_write = "none"
  /\ final_file = NoFile
  /\ evlog = <<>>
  /\ merged_entries = EmptyMap
  /\ merging = 0
  /\ merges_done = 0
  /\ run_jobs_calls = 0

\* Faulty variant: the step replica map is bound instead.
BoundStepReplicaMap == step_replica_map

\* The replica map run_jobs binds to make_fs_access and stores on the
\* runtime context for make_path_mapper: the executor's global map.
RuntimeContextReplicaMap == global_map.root

\* run_jobs up to the job iterator: load the global map once.
RunJobsLoadRaises ==
  /\ pc = "main"
  /\ global_map.is_none
  /\ LoadFails(global_map_path)
  /\ pc' = "raised"
  /\ run_jobs_error' = [raised |-> ValidationError, surfaced |-> ValidationError]
  /\ run_jobs_calls' = run_jobs_calls + 1
  /\ UNCHANGED <<global_map, global_map_path, validate_only, njobs, job,
                 step_replica_map, step_file, merge_todo, new_entries,
                 updated_entries, last_access, job_failed, exit_code,
                 final_write, final_file, evlog, merged_entries, merging, merges_done,
                 lab_vars, bench_vars>>

RunJobsLoad ==
  /\ pc = "main"
  /\ ~(global_map.is_none /\ LoadFails(global_map_path))
  /\ run_jobs_calls' = run_jobs_calls + 1
  /\ global_map' = LoadGlobalMap(global_map, global_map_path)
  /\ pc' = "iter"
  /\ UNCHANGED <<global_map_path, validate_only, njobs, job, step_replica_map,
                 step_file, merge_todo, new_entries, updated_entries, last_access,
                 job_failed, run_jobs_error, exit_code, final_write, final_file,
                 evlog, merged_entries, merging, merges_done, lab_vars, bench_vars>>

\* The executor is called again after run_jobs returned: run_jobs starts
\* over on the same DiracExecutor object.
RunJobsAgain ==
  /\ pc = "returned"
  /\ run_jobs_calls < MaxRunJobsCalls
  /\ pc' = "main"
  /\ UNCHANGED <<global_map, global_map_path, validate_only, njobs, job,
                 step_replica_map, step_file, merge_todo, new_entries,
                 updated_entries, last_access, job_failed, run_jobs_error,
                 exit_code, final_write, final_file, evlog, merged_entries,
                 merging, merges_done, run_jobs_calls, lab_vars, bench_vars>>

\* Faulty variant: the next job is taken while a merge is in progress.
LoopReadyWhileMerging == pc \in {"iter", "merging"}

\* The for loop asks the iterator for the next job only when the body of
\* the previous iteration (prepare, run, merge) has finished.
LoopReady == pc = "iter"

\* The loop variables of one iteration go out of scope: when the body
\* of the iteration is over and when run_jobs is left.
IterationOver ==
  /\ job' = NoJob
  /\ step_replica_map' = EmptyMap
  /\ step_file' = NoFile
  /\ merge_todo' = {}
  /\ new_entries' = <<>>
  /\ updated_entries' = <<>>
  /\ last_access' = NoAccess
  /\ evlog' = <<>>

\* for job in jobiter: a job is yielded.
JobIterYield ==
  /\ LoopReady
  /\ njobs < MaxJobs
  /\ \/ \E outdir \in BOOLEAN, job_order \in JobOrders :
          job' = [class |-> "CommandLineJob", outdir |-> outdir, job_order |-> job_order]
     \/ job' = [class |-> "ExpressionJob", outdir |-> FALSE, job_order |-> <<>>]
  /\ njobs' = njobs + 1
  /\ pc' = "yielded"
  /\ step_replica_map' = EmptyMap
  /\ step_file' = NoFile
  /\ merge_todo' = {}
  /\ new_entries' = <<>>
  /\ updated_entries' = <<>>
  /\ last_access' = NoAccess
  /\ evlog' = <<>>
  /\ UNCHANGED <<global_map, global_map_path, validate_only, job_failed,
                 run_jobs_error, exit_code, final_write, final_file,
                 merged_entries, merging, merges_done, run_jobs_calls, lab_vars, bench_vars>>

\* The iterator yields None: "Workflow cannot make any more progress", break.
JobIterNone ==
  /\ LoopReady
  /\ job_failed' = TRUE
  /\ pc' = "returned"
  /\ IterationOver
  /\ UNCHANGED <<global_map, global_map_path, validate_only, njobs,
                 run_jobs_error, exit_code, final_write, final_file,
                 merged_entries, merging, merges_done, run_jobs_calls, lab_vars, bench_vars>>

\* The iterator is exhausted: the loop ends and run_jobs returns.
JobIterStop ==
  /\ LoopReady
  /\ pc' = "returned"
  /\ IterationOver
  /\ UNCHANGED <<global_map, global_map_path, validate_only, njobs, job_failed,
                 run_jobs_error, exit_code, final_write, final_file,
                 merged_entries, merging, merges_done, run_jobs_calls, lab_vars, bench_vars>>

\* The iterator raises: a WorkflowException is re-raised, anything else is
\* wrapped in a WorkflowException.
JobIterRaise ==
  /\ LoopReady
  /\ \E err \in EngineErrors :
       run_jobs_error' = [raised |-> err, surfaced |-> RunJobsExcept(err)]
  /\ pc' = "raised"
  /\ IterationOver
  /\ UNCHANGED <<global_map, global_map_path, validate_only, njobs, job_failed,
                 exit_code, final_write, final_file, merged_entries, merging, merges_done,
                 run_jobs_calls, lab_vars, bench_vars>>

\* Validation mode: print and return from run_jobs at the first job.
JobValidateOnly ==
  /\ pc = "yielded"
  /\ validate_only
  /\ pc' = "returned"
  /\ IterationOver
  /\ UNCHANGED <<global_map, global_map_path, validate_only, njobs, job_failed,
                 run_jobs_error, exit_code, final_write, final_file,
                 merged_entries, merging, merges_done, run_jobs_calls, lab_vars, bench_vars>>

\* _prepare_job_replica_map for a CommandLineJob (nothing for another job).
JobPrepare ==
  /\ pc = "yielded"
  /\ ~validate_only
  /\ IF job.class = "CommandLineJob"
       THEN \E empty_is_truthy \in BOOLEAN :
              /\ step_replica_map' =
                   FilterGlobalMap(_extract_lfns_from_inputs(job.job_order),
                                   global_map, empty_is_truthy)
              /\ IF job.outdir
                   THEN /\ step_file' = model_dump_json(step_replica_map')
                        /\ evlog' = Append(evlog, "write")
                   ELSE UNCHANGED <<step_file, evlog>>
       ELSE UNCHANGED <<step_replica_map, step_file, evlog>>
  /\ pc' = "prepared"
  /\ last_access' = NoAccess
  /\ UNCHANGED <<global_map, global_map_path, validate_only, njobs, job,
                 merge_todo, new_entries, updated_entries, job_failed,
                 run_jobs_error, exit_code, final_write, final_file,
                 merged_entries, merging, merges_done, run_jobs_calls, lab_vars, bench_vars>>

\* Faulty variant: the job may be run before its preparation.
RunReadyUnprepared == pc \in {"yielded", "prepared"}

\* job.run(runtime_context) is called after the preparation.
RunReady == pc = "prepared"

JobRunStart ==
  /\ RunReady
  /\ pc' = "running"
  /\ evlog' = Append(evlog, "run")
  /\ UNCHANGED <<global_map, global_map_path, validate_only, njobs, job,
                 step_replica_map, step_file, merge_todo, new_entries,
                 updated_entries, last_access, job_failed, run_jobs_error,
                 exit_code, final_write, final_file, merged_entries, merging, merges_done, run_jobs_calls, lab_vars, bench_vars>>

\* While the job is set up and run, cwltool checks a File reference with
\* the file access object made by runtime_context.make_fs_access.  The
\* accesses of a job do not depend on each other and change nothing but
\* last_access, so one access per job is followed.
ToolFsExists ==
  /\ pc = "running"
  /\ job.class = "CommandLineJob"
  /\ last_access = NoAccess
  /\ \E ref \in Refs : \E disk \in SUBSET PathsOf(ref) :
       last_access' =
         [op |-> "exists", ref |-> ref,
          resolved |-> StartsWithLFN(ref) /\ _resolve_lfn(RuntimeContextReplicaMap, ref).found,
          replica_on_disk |-> UrlLocal.path \in disk,
          name_on_disk |-> StripLFN(ref) \in disk,
          result |-> IF FsExists(RuntimeContextReplicaMap, ref, disk)
                       THEN "true" ELSE "false"]
  /\ UNCHANGED <<pc, global_map, global_map_path, validate_only, njobs, job,
                 step_replica_map, step_file, merge_todo, new_entries,
                 updated_entries, job_failed, run_jobs_error, exit_code,
                 final_write, final_file, evlog, merged_entries, merging, merges_done, run_jobs_calls, lab_vars, bench_vars>>

\* make_path_mapper: DiracPathMapper visits a File reference of the job
\* (cwltool builds the path mapper when it builds the job).
ToolPathMapperVisit ==
  /\ pc = "yielded"
  /\ job.class = "CommandLineJob"
  /\ last_access = NoAccess
  /\ \E ref \in Refs :
       last_access' =
         [op |-> "visit", ref |-> ref,
          resolved |-> PathMapperVisitKind(RuntimeContextReplicaMap, ref) = "direct",
          replica_on_disk |-> FALSE, name_on_disk |-> FALSE,
          result |-> PathMapperVisitKind(RuntimeContextReplicaMap, ref)]
  /\ UNCHANGED <<pc, global_map, global_map_path, validate_only, njobs, job,
                 step_replica_map, step_file, merge_todo, new_entries,
                 updated_entries, job_failed, run_jobs_error, exit_code,
                 final_write, final_file, evlog, merged_entries, merging, merges_done, run_jobs_calls, lab_vars, bench_vars>>

\* job.run has set the job up and starts the tool's process.  The job's
\* inputs and the map prepared from them are not read again: the merge
\* reads job.outdir and the file only.
JobRunExecute ==
  /\ pc = "running"
  /\ pc' = "executing"
  /\ last_access' = NoAccess
  /\ job' = [job EXCEPT !.job_order = <<>>]
  /\ step_replica_map' = EmptyMap
  /\ UNCHANGED <<global_map, global_map_path, validate_only, njobs, step_file,
                 merge_todo, new_entries, updated_entries, job_failed,
                 run_jobs_error, exit_code, final_write, final_file, evlog,
                 merged_entries, merging, merges_done, run_jobs_calls, lab_vars,
                 bench_vars>>

\* job.run returns; the tool may have rewritten, removed or corrupted the
\* replica_map.json of its output directory; the job may have failed.
JobRunReturn ==
  /\ pc = "executing"
  /\ \E failed \in BOOLEAN : job_failed' = (job_failed \/ failed)
  /\ IF job.class = "CommandLineJob" /\ job.outdir
       THEN \E f \in Documents \cup {step_file} : step_file' = f
       ELSE UNCHANGED step_file
  /\ pc' = "ran"
  /\ UNCHANGED <<global_map, global_map_path, validate_only, njobs, job,
                 step_replica_map, last_access, merge_todo, new_entries,
                 updated_entries,
                 run_jobs_error, exit_code, final_write, final_file, evlog,
                 merged_entries, merging, merges_done, run_jobs_calls, lab_vars, bench_vars>>

\* job.run raises: re-raised or wrapped by the except clauses of run_jobs.
JobRunRaise ==
  /\ pc = "running"
  /\ \E err \in EngineErrors :
       run_jobs_error' = [raised |-> err, surfaced |-> RunJobsExcept(err)]
  /\ pc' = "raised"
  /\ IterationOver
  /\ UNCHANGED <<global_map, global_map_path, validate_only, njobs, job_failed,
                 exit_code, final_write, final_file, merged_entries, merging, merges_done,
                 run_jobs_calls, lab_vars, bench_vars>>

\* _update_replica_map_from_job returns early: not a CommandLineJob (not
\* called), no output directory, no file, or a file that does not parse
\* (the exception is caught and logged).
JobMergeSkipped ==
  /\ pc = "ran"
  /\ \/ job.class # "CommandLineJob"
     \/ ~job.outdir
     \/ step_file.state # "valid"
  /\ LET err == IF job.class = "CommandLineJob" /\ job.outdir
                      /\ step_file.state = "malformed"
                  THEN UpdateExcept(ValidationError)
                  ELSE NoError
     IN IF err = NoError
          THEN pc' = "skipped" /\ UNCHANGED run_jobs_error
          ELSE /\ pc' = "raised"
               /\ run_jobs_error' = [raised |-> err, surfaced |-> RunJobsExcept(err)]
  /\ UNCHANGED <<global_map, global_map_path, validate_only, njobs, job,
                 step_replica_map, step_file, merge_todo, new_entries,
                 updated_entries, last_access, job_failed,
                 exit_code, final_write, final_file, evlog, merged_entries,
                 merging, merges_done, run_jobs_calls, lab_vars, bench_vars>>

\* Back in the job loop after the early return: the iteration is over.
JobMergeReturn ==
  /\ pc = "skipped"
  /\ pc' = "iter"
  /\ IterationOver
  /\ UNCHANGED <<global_map, global_map_path, validate_only, njobs, job_failed,
                 run_jobs_error, exit_code, final_write, final_file,
                 merged_entries, merging, merges_done, run_jobs_calls, lab_vars, bench_vars>>

\* _update_replica_map_from_job reads and parses the step replica map.
JobMergeBegin ==
  /\ pc = "ran"
  /\ job.class = "CommandLineJob"
  /\ job.outdir
  /\ step_file.state = "valid"
  /\ global_map' = IF global_map.is_none THEN SomeMap(EmptyMap) ELSE global_map
  /\ merge_todo' = DOMAIN model_validate_json(step_file)
  /\ new_entries' = <<>>
  /\ updated_entries' = <<>>
  /\ merged_entries' =
       LET S == model_validate_json(step_file)
       IN [k \in (DOMAIN merged_entries) \cup (DOMAIN S) |->
             IF k \in DOMAIN S THEN S[k] ELSE merged_entries[k]]
  /\ merging' = merging + 1
  /\ UNCHANGED merges_done
  /\ evlog' = Append(evlog, "merge")
  /\ pc' = "merging"
  /\ UNCHANGED <<global_map_path, validate_only, njobs, job, step_replica_map,
                 step_file, last_access, job_failed, run_jobs_error, exit_code,
                 final_write, final_file, run_jobs_calls, lab_vars, bench_vars>>

\* One iteration of the merge loop.
JobMergeItem ==
  /\ pc = "merging"
  /\ \E lfn \in merge_todo :
       LET S == model_validate_json(step_file)
           r == MergeEntry(global_map.root, lfn, S[lfn])
       IN /\ global_map' = SomeMap(r.map)
          /\ merge_todo' = merge_todo \ {lfn}
          /\ new_entries' = IF r.kind = "new" THEN Append(new_entries, lfn)
                                              ELSE new_entries
          /\ updated_entries' = IF r.kind = "updated" THEN Append(updated_entries, lfn)
                                                      ELSE updated_entries
  /\ UNCHANGED <<pc, global_map_path, validate_only, njobs, job, step_replica_map,
                 step_file, last_access, job_failed, run_jobs_error, exit_code,
                 final_write, final_file, evlog, merged_entries, merging, merges_done, run_jobs_calls, lab_vars, bench_vars>>

\* The merge loop is over: log the counts, return to the job loop.
JobMergeEnd ==
  /\ pc = "merging"
  /\ merge_todo = {}
  /\ merging' = merging - 1
  /\ merges_done' = merges_done + 1
  /\ pc' = "iter"
  /\ IterationOver
  /\ UNCHANGED <<global_map, global_map_path, validate_only, njobs, job_failed,
                 run_jobs_error, exit_code, final_write, final_file,
                 merged_entries, run_jobs_calls, lab_vars, bench_vars>>

\* cwltool_main returns its exit code to main.
CwltoolMainReturn ==
  /\ pc \in {"returned", "raised"}
  /\ exit_code' = IF pc = "returned" /\ ~job_failed THEN 0 ELSE 1
  /\ pc' = "exited"
  /\ UNCHANGED <<global_map, global_map_path, validate_only, njobs, job,
                 step_replica_map, step_file, merge_todo, new_entries,
                 updated_entries, last_access, job_failed, run_jobs_error,
                 final_write, final_file, evlog, merged_entries, merging, merges_done, run_jobs_calls, lab_vars, bench_vars>>

\* cwltool_main raises: main prints the error and exits with code 1.
CwltoolMainRaises ==
  /\ pc \in {"main", "raised"}
  /\ exit_code' = 1
  /\ pc' = "ended"
  /\ UNCHANGED <<global_map, global_map_path, validate_only, njobs, job,
                 step_replica_map, step_file, merge_todo, new_entries,
                 updated_entries, last_access, job_failed, run_jobs_error,
                 final_write, final_file, evlog, merged_entries, merging, merges_done, run_jobs_calls, lab_vars, bench_vars>>

\* Faulty variant: the final write is attempted whatever the exit code.
MainWritesOnAnyExit(code) == TRUE

\* main after cwltool_main returned: on exit code 0 and a truthy global
\* map, write it to <outdir>/replica_map.json (a failing write is only
\* reported); then sys.exit(exit_code).
MainWrites(code) == code = 0

MainFinish ==
  /\ pc = "exited"
  /\ \E empty_is_truthy \in BOOLEAN, write_ok \in BOOLEAN :
       IF MainWrites(exit_code) /\ Truthy(global_map, empty_is_truthy)
         THEN IF write_ok
                THEN /\ final_file' = model_dump_json(global_map.root)
                     /\ final_write' = "written"
                ELSE /\ final_file' = final_file
                     /\ final_write' = "failed"
         ELSE UNCHANGED <<final_file, final_write>>
  /\ pc' = "ended"
  /\ UNCHANGED <<global_map, global_map_path, validate_only, njobs, job,
                 step_replica_map, step_file, merge_todo, new_entries,
                 updated_entries, last_access, job_failed, run_jobs_error,
                 exit_code, evlog, merged_entries, merging, merges_done, run_jobs_calls, lab_vars, bench_vars>>

\* ------------------------------------------------------- specifications
Init ==
  RunInit /\ LabIdle /\ ExIdle /\ FsIdle /\ PmIdle /\ RegIdle
    /\ ResIdle /\ JwIdle /\ JrIdle /\ OutIdle

Next ==
  \/ RunJobsLoadRaises
  \/ RunJobsLoad
  \/ RunJobsAgain
  \/ JobIterYield
  \/ JobIterNone
  \/ JobIterStop
  \/ JobIterRaise
  \/ JobValidateOnly
  \/ JobPrepare
  \/ JobRunStart
  \/ ToolFsExists
  \/ ToolPathMapperVisit
  \/ JobRunExecute
  \/ JobRunReturn
  \/ JobRunRaise
  \/ JobMergeSkipped
  \/ JobMergeReturn
  \/ JobMergeBegin
  \/ JobMergeItem
  \/ JobMergeEnd
  \/ CwltoolMainReturn
  \/ CwltoolMainRaises
  \/ MainFinish

Spec == Init /\ [][Next]_vars

MergeInit ==
  LabInit /\ RunIdle /\ ExIdle /\ FsIdle /\ PmIdle /\ RegIdle
    /\ ResIdle /\ JwIdle /\ JrIdle /\ OutIdle

MergeNext == LabMergeA \/ LabMergeB

MergeSpec == MergeInit /\ [][MergeNext]_vars

ExtractInit ==
  ExInit /\ RunIdle /\ LabIdle /\ FsIdle /\ PmIdle /\ RegIdle
    /\ ResIdle /\ JwIdle /\ JrIdle /\ OutIdle

ExtractNext == ExtractApply

ExtractSpec == ExtractInit /\ [][ExtractNext]_vars

FsAccessInit ==
  FsInit /\ RunIdle /\ LabIdle /\ ExIdle /\ PmIdle /\ RegIdle
    /\ ResIdle /\ JwIdle /\ JrIdle /\ OutIdle

FsAccessNext ==
  \/ FsCallResolve
  \/ FsCallExists
  \/ FsCallIsdir
  \/ FsCallOpen
  \/ FsCallGlob
  \/ FsCallSize

FsAccessSpec == FsAccessInit /\ [][FsAccessNext]_vars

\* ------------------------------------------------------ plugin registry
\* Plugin classes: name is what cls.name() returns, vo the class
\* attribute; NotAPlugin does not inherit from InputDatasetPluginBase.
PluginNames == {"P", "Q"}

PluginVOs == {"generic", "lhcb", "ctao"}

PluginClasses == [name : PluginNames, vo : PluginVOs, is_plugin : {TRUE}]

NotAPlugin == [name |-> "P", vo |-> "generic", is_plugin |-> FALSE]

NoClass == [name |-> "", vo |-> "", is_plugin |-> FALSE]

\* The vo argument of get_plugin and list_plugins; NoVO is None.
NoVO == "None"

QueryVOs == PluginVOs \cup {NoVO}

get_schema_info(cls) == <<"schema", cls.name, cls.vo>>

RegLast(op, cls, override, key, vo, raised, got, listed) ==
  [op |-> op, cls |-> cls, override |-> override, key |-> key, vo |-> vo,
   raised |-> raised, got |-> got, listed |-> listed]

\* InputDatasetPluginRegistry.__init__
RegInit ==
  reg = [_plugins |-> EmptyMap, _vo_plugins |-> EmptyMap, _plugin_info |-> EmptyMap,
         last |-> RegLast("none", NoClass, FALSE, "", NoVO, "none", NoClass, {})]

\* Faulty variant: a registered name is refused whatever override says.
AlreadyRegisteredIgnoresOverride(r, cls, override) == cls.name \in DOMAIN r._plugins

\* plugin_key in self._plugins and not override
AlreadyRegistered(r, cls, override) == cls.name \in DOMAIN r._plugins /\ ~override

\* What register_plugin leaves of the registry when it returns.
Registered(r, cls) ==
  LET plugin_key == cls.name
      vo == cls.vo
      vo_table == IF vo \in DOMAIN r._vo_plugins THEN r._vo_plugins[vo] ELSE EmptyMap
  IN [r EXCEPT
        !._plugins = Put(r._plugins, plugin_key, cls),
        !._plugin_info = Put(r._plugin_info, plugin_key, get_schema_info(cls)),
        !._vo_plugins = IF vo # "generic"
                          THEN Put(r._vo_plugins, vo, Put(vo_table, plugin_key, cls))
                          ELSE r._vo_plugins]

register_plugin ==
  \E cls \in PluginClasses \cup {NotAPlugin}, override \in BOOLEAN :
    /\ reg' = IF ~cls.is_plugin \/ AlreadyRegistered(reg, cls, override)
                THEN [reg EXCEPT !.last = RegLast("register_plugin", cls, override, "",
                                                  NoVO, "ValueError", NoClass, {})]
                ELSE [Registered(reg, cls) EXCEPT
                        !.last = RegLast("register_plugin", cls, override, "",
                                         NoVO, "none", NoClass, {})]
    /\ UNCHANGED <<ex_vars, fs_vars, pm, req, jw, jr, out, lab_vars, run_vars>>

\* self._plugins.get(plugin_key): None for a name that is not registered.
PluginsGet(r, plugin_key) ==
  IF plugin_key \in DOMAIN r._plugins THEN r._plugins[plugin_key] ELSE NoClass

GetPlugin(r, plugin_key, vo) ==
  IF vo # NoVO /\ vo \in DOMAIN r._vo_plugins /\ plugin_key \in DOMAIN r._vo_plugins[vo]
    THEN r._vo_plugins[vo][plugin_key]
    ELSE PluginsGet(r, plugin_key)

\* The names list_plugins returns, as a set.
ListPlugins(r, vo) ==
  IF vo # NoVO /\ vo \in DOMAIN r._vo_plugins
    THEN DOMAIN r._vo_plugins[vo]
    ELSE DOMAIN r._plugins

get_plugin ==
  \E plugin_key \in PluginNames, vo \in QueryVOs :
    /\ reg' = [reg EXCEPT !.last = RegLast("get_plugin", NoClass, FALSE, plugin_key, vo,
                                          "none", GetPlugin(reg, plugin_key, vo), {})]
    /\ UNCHANGED <<ex_vars, fs_vars, pm, req, jw, jr, out, lab_vars, run_vars>>

list_plugins ==
  \E vo \in QueryVOs :
    /\ reg' = [reg EXCEPT !.last = RegLast("list_plugins", NoClass, FALSE, "", vo,
                                          "none", NoClass, ListPlugins(reg, vo))]
    /\ UNCHANGED <<ex_vars, fs_vars, pm, req, jw, jr, out, lab_vars, run_vars>>

RegistryInit ==
  RegInit /\ RunIdle /\ LabIdle /\ ExIdle /\ FsIdle /\ PmIdle
    /\ ResIdle /\ JwIdle /\ JrIdle /\ OutIdle

RegistryNext == register_plugin \/ get_plugin \/ list_plugins

RegistrySpec == RegistryInit /\ [][RegistryNext]_vars

\* ------------------------------------------------ resource requirements
\* A ResourceRequirement declares a min and a max per resource; NoValue
\* is a field left at None.  NoReq is an object without one.
NoValue == -1

ResourceNames == {"ram", "cores"}

ResourceValues == {NoValue} \cup (0..MaxResource)

NoReq ==
  [class |-> "None", min |-> [r \in ResourceNames |-> NoValue],
   max |-> [r \in ResourceNames |-> NoValue]]

ResourceRequirement(resource, min_value, max_value) ==
  [class |-> "ResourceRequirement",
   min |-> [r \in ResourceNames |-> IF r = resource THEN min_value ELSE NoValue],
   max |-> [r \in ResourceNames |-> IF r = resource THEN max_value ELSE NoValue]]

ResReqs ==
  {NoReq} \cup {ResourceRequirement(r, lo, hi) :
                  r \in ResourceNames, lo \in ResourceValues, hi \in ResourceValues}

\* CWL objects: a CommandLineTool, a WorkflowStep, a Workflow.
CommandLineTool(requirements) ==
  [class |-> "CommandLineTool", requirements |-> requirements, steps |-> <<>>]

WorkflowStep(requirements, run) == [requirements |-> requirements, run |-> run]

Workflow(requirements, steps) ==
  [class |-> "Workflow", requirements |-> requirements, steps |-> steps]

\* The tasks submitted: a tool, a workflow of one step that runs a tool,
\* and a workflow whose step runs a nested workflow of one step.  The
\* shape names the two objects that carry the requirements ra and rb.
ResShapes ==
  {"tool", "wf_step", "wf_run", "step_run", "wf_nested", "wf_nested_step",
   "wf_nested_run", "nested_nested_step"}

PlainTool == CommandLineTool(NoReq)

Nested(r_wf, r_step, r_run) ==
  Workflow(r_wf, <<WorkflowStep(r_step, CommandLineTool(r_run))>>)

ResTask(shape, ra, rb) ==
  CASE shape = "tool" -> CommandLineTool(ra)
    [] shape = "wf_step" -> Workflow(ra, <<WorkflowStep(rb, PlainTool)>>)
    [] shape = "wf_run" -> Workflow(ra, <<WorkflowStep(NoReq, CommandLineTool(rb))>>)
    [] shape = "step_run" -> Workflow(NoReq, <<WorkflowStep(ra, CommandLineTool(rb))>>)
    [] shape = "wf_nested" ->
         Workflow(ra, <<WorkflowStep(NoReq, Nested(rb, NoReq, NoReq))>>)
    [] shape = "wf_nested_step" ->
         Workflow(ra, <<WorkflowStep(NoReq, Nested(NoReq, rb, NoReq))>>)
    [] shape = "wf_nested_run" ->
         Workflow(ra, <<WorkflowStep(NoReq, Nested(NoReq, NoReq, rb))>>)
    [] shape = "nested_nested_step" ->
         Workflow(NoReq, <<WorkflowStep(NoReq, Nested(ra, rb, NoReq))>>)

\* Truth value of an int or None in a Python condition.
ValueTruthy(v) == v # NoValue /\ v # 0

\* _check_resource: TRUE when it raises ValueError.
_check_resource(req_min_value, req_max_value, wf_req_max_value) ==
  \/ ValueTruthy(req_min_value) /\ ValueTruthy(req_max_value)
       /\ req_min_value > req_max_value
  \/ ValueTruthy(wf_req_max_value) /\ ValueTruthy(req_min_value)
       /\ req_min_value > wf_req_max_value

\* _validate_resource_requirement: TRUE when it raises ValueError.
_validate_resource_requirement(requirement, cwl_req) ==
  \E resource \in ResourceNames :
    _check_resource(requirement.min[resource], requirement.max[resource],
                    IF cwl_req = NoReq THEN NoValue ELSE cwl_req.max[resource])

\* validate_resource_requirements: TRUE when it raises ValueError.
RECURSIVE validate_resource_requirements(_)
validate_resource_requirements(task) ==
  LET cwl_req == task.requirements
  IN \/ cwl_req # NoReq /\ _validate_resource_requirement(cwl_req, NoReq)
     \/ /\ task.class # "CommandLineTool"
        /\ \E i \in 1..Len(task.steps) :
             LET step == task.steps[i]
             IN \/ /\ step.requirements # NoReq
                   /\ _validate_resource_requirement(step.requirements, cwl_req)
                \/ /\ step.run.class = "Workflow"
                   /\ validate_resource_requirements(step.run)
                \/ /\ step.run.requirements # NoReq
                   /\ _validate_resource_requirement(step.run.requirements, cwl_req)

SubmissionModels == {"JobSubmissionModel", "TransformationSubmissionModel"}

\* A task about to be given to a submission model.
ResInit ==
  /\ req \in [shape : ResShapes, ra : ResReqs, rb : ResReqs,
               model : {"none"}, built : {"no"}]
  /\ req.shape = "tool" => req.rb = NoReq

ReqTask == ResTask(req.shape, req.ra, req.rb)

\* JobSubmissionModel(task=task) or TransformationSubmissionModel(task=task):
\* the model's before-validator validates the resource requirements.
BuildSubmissionModel ==
  /\ req.built = "no"
  /\ \E model \in SubmissionModels :
       req' = [req EXCEPT !.model = model,
                          !.built = IF validate_resource_requirements(ReqTask)
                                      THEN "ValueError" ELSE "ok"]
  /\ UNCHANGED <<ex_vars, fs_vars, pm, reg, jw, jr, out, lab_vars, run_vars>>

ResourceInit ==
  ResInit /\ RunIdle /\ LabIdle /\ ExIdle /\ FsIdle /\ PmIdle
    /\ RegIdle /\ JwIdle /\ JrIdle /\ OutIdle

ResourceNext == BuildSubmissionModel

ResourceSpec == ResourceInit /\ [][ResourceNext]_vars

\* ----------------------------------------------------------- job wrapper
\* Command classes: base says which of PreProcessCommand and
\* PostProcessCommand the class inherits from ("dual": both, "other":
\* neither); fails says whether its execute raises an Exception.
CommandClasses == [base : {"pre", "post", "dual", "other"}, fails : BOOLEAN]

\* issubclass(command, PreProcessCommand) and
\* issubclass(command, PostProcessCommand)
IsSubclass(command, stage) == command.base \in {stage, "dual"}

\* Faulty variant: the exception of a command is logged and dropped.
ProcessExceptSwallows(command) == "none"

\* The except clause around execute: what the loop raises.
ProcessExcept(command) ==
  IF command.fails THEN "WorkflowProcessingException" ELSE "none"

\* The loop over the commands from position i on: the positions whose
\* execute was called so far, and the exception that ended the loop.
RECURSIVE RunCommands(_, _, _, _)
RunCommands(commands, stage, i, executed) ==
  IF i > Len(commands) THEN [executed |-> executed, raised |-> "none"]
  ELSE IF ~IsSubclass(commands[i], stage)
    THEN [executed |-> executed, raised |-> "TypeError"]
  ELSE IF ProcessExcept(commands[i]) # "none"
    THEN [executed |-> Append(executed, i), raised |-> ProcessExcept(commands[i])]
  ELSE RunCommands(commands, stage, i + 1, Append(executed, i))

\* A JobWrapper with or without an execution hooks plugin, whose
\* commands of both stages are the same list.
JwInit ==
  jw \in [commands : SeqsUpTo(CommandClasses, MaxCommands), has_plugin : BOOLEAN,
          stage : {"none"}, executed : {<<>>}, raised : {"none"}, stored : {FALSE}]

Processed(stage, ran, stored) ==
  [jw EXCEPT !.stage = stage, !.executed = ran.executed, !.raised = ran.raised,
             !.stored = stored]

pre_process ==
  /\ jw.stage = "none"
  /\ jw' = IF ~jw.has_plugin
             THEN Processed("pre", [executed |-> <<>>, raised |-> "RuntimeWarning"], FALSE)
             ELSE Processed("pre", RunCommands(jw.commands, "pre", 1, <<>>), FALSE)
  /\ UNCHANGED <<ex_vars, fs_vars, pm, reg, req, jr, out, lab_vars, run_vars>>

post_process ==
  /\ jw.stage = "none"
  /\ jw' = IF ~jw.has_plugin
             THEN Processed("post", [executed |-> <<>>, raised |-> "RuntimeWarning"], FALSE)
             ELSE LET ran == RunCommands(jw.commands, "post", 1, <<>>)
                  IN Processed("post", ran, ran.raised = "none")
  /\ UNCHANGED <<ex_vars, fs_vars, pm, reg, req, jr, out, lab_vars, run_vars>>

JobWrapperInit ==
  JwInit /\ RunIdle /\ LabIdle /\ ExIdle /\ FsIdle /\ PmIdle
    /\ RegIdle /\ ResIdle /\ JrIdle /\ OutIdle

JobWrapperNext == pre_process \/ post_process

JobWrapperSpec == JobWrapperInit /\ [][JobWrapperNext]_vars

\* ------------------------------------------------------------ job report
\* The tuples of job_status_info.  setJobStatus appends the 4-tuple
\* (status, minor_status, application_status, timestamp);
\* setApplicationStatus appends the 3-tuple ("", "", (appStatus, timeStamp)):
\* arity is the length of the tuple, the fields name what it holds.
StatusTuple(status, minor_status, application_status, timestamp) ==
  [arity |-> 4, status |-> status, minor_status |-> minor_status,
   application_status |-> application_status, timestamp |-> timestamp]

AppStatusTuple(appStatus, timeStamp) ==
  [arity |-> 3, status |-> "", minor_status |-> "",
   application_status |-> appStatus, timestamp |-> timeStamp]

JobStatuses == {"Running", "Failed"}

\* What the last call did: the buffer it found, whether the client was
\* called, the number of status updates in the body sent, the exception.
JrLast(op, before, called, sent, raised) ==
  [op |-> op, before |-> before, called |-> called, sent |-> sent, raised |-> raised]

\* JobReport.__init__; now is the last reading of the clock.
JrInit ==
  jr = [job_status_info |-> <<>>, now |-> 0,
        last |-> JrLast("none", <<>>, FALSE, 0, "none")]

\* str(datetime.now(timezone.utc)): the clock has not moved since the
\* last reading, or it has.
ClockReadings == {t \in {jr.now, jr.now + 1} : t <= MaxRecords}

setJobStatus ==
  /\ Len(jr.job_status_info) < MaxRecords
  /\ \E status \in JobStatuses, timestamp \in ClockReadings :
       jr' = [job_status_info |->
                Append(jr.job_status_info,
                       StatusTuple(status, "Executing Payload", "", timestamp)),
              now |-> timestamp,
              last |-> JrLast("setJobStatus", jr.job_status_info, FALSE, 0, "none")]
  /\ UNCHANGED <<ex_vars, fs_vars, pm, reg, req, jw, out, lab_vars, run_vars>>

setApplicationStatus ==
  /\ Len(jr.job_status_info) < MaxRecords
  /\ \E appStatus \in {"", "app"}, timeStamp \in ClockReadings :
       jr' = [job_status_info |->
                IF appStatus # ""
                  THEN Append(jr.job_status_info, AppStatusTuple(appStatus, timeStamp))
                  ELSE jr.job_status_info,
              now |-> timeStamp,
              last |-> JrLast("setApplicationStatus", jr.job_status_info, FALSE, 0, "none")]
  /\ UNCHANGED <<ex_vars, fs_vars, pm, reg, req, jw, out, lab_vars, run_vars>>

\* The body of sendStoredStatusInfo: a dict keyed by timestamp, built by
\* unpacking every tuple into four names.
BodyUnpackFails(job_status_info) ==
  \E i \in 1..Len(job_status_info) : job_status_info[i].arity # 4

BodyKeys(job_status_info) ==
  {job_status_info[i].timestamp : i \in 1..Len(job_status_info)}

\* commit: sendStoredStatusInfo with the answer of set_job_statuses.
commit ==
  \E success \in BOOLEAN :
    /\ jr' = IF BodyUnpackFails(jr.job_status_info)
               THEN [jr EXCEPT !.last = JrLast("commit", jr.job_status_info, FALSE, 0,
                                               "ValueError")]
               ELSE [jr EXCEPT
                       !.job_status_info = IF success THEN <<>> ELSE jr.job_status_info,
                       !.last = JrLast("commit", jr.job_status_info, TRUE,
                                       Cardinality(BodyKeys(jr.job_status_info)),
                                       IF success THEN "none" ELSE "RuntimeError")]
    /\ UNCHANGED <<ex_vars, fs_vars, pm, reg, req, jw, out, lab_vars, run_vars>>

JobReportInit ==
  JrInit /\ RunIdle /\ LabIdle /\ ExIdle /\ FsIdle /\ PmIdle
    /\ RegIdle /\ ResIdle /\ JwIdle /\ OutIdle

JobReportNext == setJobStatus \/ setApplicationStatus \/ commit

JobReportSpec == JobReportInit /\ [][JobReportNext]_vars

\* ------------------------------------------------- lb-prod-run outputs
\* output_prefix is "p".  f"{output_prefix}.{variant}" for the lower,
\* upper and title case of an output type.
OutputTypes == {"SIM", "DIGI"}

PatternLower(output_type) == IF output_type = "SIM" THEN "p.sim" ELSE "p.digi"

PatternUpper(output_type) == IF output_type = "SIM" THEN "p.SIM" ELSE "p.DIGI"

PatternTitle(output_type) == IF output_type = "SIM" THEN "p.Sim" ELSE "p.Digi"

\* The working directory: what each name is, on a case-sensitive
\* filesystem.
OutDisks == [OutputNames -> {"file", "dir", "absent"}]

\* working_dir.glob(pattern) for a pattern without wildcards.
OutGlob(disk, pattern) ==
  IF pattern \in DOMAIN disk /\ disk[pattern] # "absent" THEN {pattern} ELSE {}

\* matching_files of one output type: the lower-case pattern, then the
\* first of the lower, upper and title variants that matches anything.
MatchingFiles(disk, output_type) ==
  IF OutGlob(disk, PatternLower(output_type)) # {}
    THEN OutGlob(disk, PatternLower(output_type))
  ELSE IF OutGlob(disk, PatternUpper(output_type)) # {}
    THEN OutGlob(disk, PatternUpper(output_type))
  ELSE OutGlob(disk, PatternTitle(output_type))

\* The entry of an output file: one replica, the file:// URL of the
\* resolved local path (the path stands for itself), and its size.
OutputEntry(name) ==
  [replicas |-> <<[scheme |-> "file", path |-> name]>>, size_bytes |-> 7]

\* Faulty variant: the key of an output file is its bare name.
OutputKeyBare(name) == name

\* lfn = f"LFN:{local_file.name}"
OutputKey(name) == LfnRef(name)

\* The loop over output_types from position i on.
RECURSIVE AddOutputs(_, _, _, _, _)
AddOutputs(replica_map, written, disk, output_types, i) ==
  IF i > Len(output_types) THEN [root |-> replica_map, written |-> written]
  ELSE LET found == {f \in MatchingFiles(disk, output_types[i]) : disk[f] = "file"}
       IN IF found = {}
            THEN AddOutputs(replica_map, written, disk, output_types, i + 1)
            ELSE LET name == CHOOSE f \in found : TRUE
                 IN AddOutputs(Put(replica_map, OutputKey(name), OutputEntry(name)),
                               written \cup {name}, disk, output_types, i + 1)

\* The replica map file, the working directory and the output types
\* add_output_files_to_replica_map is called with.
OutInit ==
  out \in [file : Documents, disk : OutDisks,
           output_types : SeqsUpTo(OutputTypes, MaxOutputTypes),
           done : {FALSE}, raised : {"none"}, added : {{}}]

add_output_files_to_replica_map ==
  /\ ~out.done
  /\ out' = IF out.file = BadFile
              THEN [out EXCEPT !.done = TRUE, !.raised = "ValidationError"]
              ELSE LET replica_map == IF out.file = NoFile THEN EmptyMap
                                      ELSE model_validate_json(out.file)
                       r == AddOutputs(replica_map, {}, out.disk, out.output_types, 1)
                   IN [out EXCEPT !.done = TRUE, !.added = r.written,
                                  !.file = model_dump_json(r.root)]
  /\ UNCHANGED <<ex_vars, fs_vars, pm, reg, req, jw, jr, lab_vars, run_vars>>

OutputsInit ==
  OutInit /\ RunIdle /\ LabIdle /\ ExIdle /\ FsIdle /\ PmIdle
    /\ RegIdle /\ ResIdle /\ JwIdle /\ JrIdle

OutputsNext == add_output_files_to_replica_map

OutputsSpec == OutputsInit /\ [][OutputsNext]_vars

PathMapInit ==
  PmInit /\ RunIdle /\ LabIdle /\ ExIdle /\ FsIdle /\ RegIdle
    /\ ResIdle /\ JwIdle /\ JrIdle /\ OutIdle

PathMapNext == PmVisit

PathMapSpec == PathMapInit /\ [][PathMapNext]_vars

\* ---------------------------------------------------------- properties
StepLfns == Range(_extract_lfns_from_inputs(job.job_order))

StepFileKeys ==
  IF step_file.state = "valid" THEN DOMAIN model_validate_json(step_file) ELSE {}

HasLocalReplica(entry) ==
  entry.replicas # <<>> /\ entry.replicas[1].scheme = "file"

\* C1: no step of the run (preparation, run, merge) removes a key from the
\* global replica map, and a key that is not in the step's
\* replica_map.json keeps its value through that step.
C1_GlobalNeverLosesKey ==
  [][\A k \in DOMAIN global_map.root :
       /\ k \in DOMAIN global_map'.root
       /\ (k \notin StepFileKeys => global_map'.root[k] = global_map.root[k])]_vars

C1_Witness ==
  /\ pc = "merging"
  /\ merge_todo = {}
  /\ new_entries # <<>>
  /\ \E k \in DOMAIN global_map.root : k \notin StepFileKeys

\* C2: one merge of S into G gives every key of S with S's value and every
\* other key of G with G's value; new_entries is exactly the keys of S
\* absent from G, updated_entries exactly the shared keys whose values
\* differ; with disjoint keys the result has |G| + |S| entries.
MergeIsExact(acc) ==
  Len(acc.applied) > 0 =>
    LET G == acc.prev
        S == LabStep(acc.applied[Len(acc.applied)])
        differing == {k \in (DOMAIN S) \cap (DOMAIN G) : G[k] # S[k]}
    IN /\ DOMAIN acc.map = (DOMAIN G) \cup (DOMAIN S)
       /\ \A k \in DOMAIN S : acc.map[k] = S[k]
       /\ \A k \in (DOMAIN G) \ (DOMAIN S) : acc.map[k] = G[k]
       /\ Range(acc.new_entries) = (DOMAIN S) \ (DOMAIN G)
       /\ Len(acc.new_entries) = Cardinality((DOMAIN S) \ (DOMAIN G))
       /\ Range(acc.updated_entries) = differing
       /\ Len(acc.updated_entries) = Cardinality(differing)
       /\ ((DOMAIN G) \cap (DOMAIN S) = {} =>
             Cardinality(DOMAIN acc.map)
               = Cardinality(DOMAIN G) + Cardinality(DOMAIN S))

C2_MergeIsExact == MergeIsExact(lab_A) /\ MergeIsExact(lab_B)

C2_Witness ==
  /\ lab_A.applied = <<1>>
  /\ lab_A.updated_entries = <<"a">>
  /\ lab_A.new_entries = <<"b">>
  /\ lab_A.map = lab_S1
  /\ lab_G # lab_S1

\* C3: merging a catalog into itself, or merging the same step map a
\* second time, leaves the global map unchanged and reports no new and no
\* updated entry.
MergeIsIdempotent(acc) ==
  LET n == Len(acc.applied)
      silent == /\ acc.map = acc.prev
                /\ acc.new_entries = <<>>
                /\ acc.updated_entries = <<>>
  IN /\ (n = 1 /\ LabStep(acc.applied[1]) = lab_G => silent /\ acc.map = lab_G)
     /\ (n >= 2 /\ acc.applied[n] = acc.applied[n - 1] => silent)

C3_MergeIdempotent == MergeIsIdempotent(lab_A) /\ MergeIsIdempotent(lab_B)

C3_Witness ==
  /\ lab_A.applied = <<1, 1>>
  /\ lab_G # lab_A.map
  /\ DOMAIN lab_S1 = Keys
  /\ lab_B.applied = <<2>>
  /\ lab_S2 = lab_G
  /\ lab_G # EmptyMap

\* C4: if S1 and S2 agree on every key they share, merging S1 then S2
\* gives the same global map as merging S2 then S1; on a key where they
\* differ the map merged last wins.
C4_MergeOrder ==
  (lab_A.applied = <<1, 2>> /\ lab_B.applied = <<2, 1>>) =>
    LET shared == (DOMAIN lab_S1) \cap (DOMAIN lab_S2)
    IN /\ ((\A k \in shared : lab_S1[k] = lab_S2[k]) => lab_A.map = lab_B.map)
       /\ \A k \in shared :
            lab_S1[k] # lab_S2[k] => lab_A.map[k] = lab_S2[k] /\ lab_B.map[k] = lab_S1[k]

C4_Witness ==
  /\ lab_A.applied = <<1, 2>>
  /\ lab_B.applied = <<2, 1>>
  /\ DOMAIN lab_G = Keys
  /\ DOMAIN lab_S1 = Keys
  /\ DOMAIN lab_S2 = Keys
  /\ lab_S1["a"] = lab_S2["a"]
  /\ lab_S1["b"] # lab_S2["b"]
  /\ lab_G["a"] # lab_S1["a"]
  /\ lab_A.map # lab_B.map

\* C5: at most one merge is in progress at any time, a merge is in
\* progress only inside the merge loop, and outside a merge every entry a
\* step's replica_map.json handed to a merge is in the global map with
\* the value of the last merge that wrote its key.
C5_MergesExclusiveNoLostUpdate ==
  /\ merging <= 1
  /\ (merging = 1 <=> pc = "merging")
  /\ (pc # "merging" =>
        \A k \in DOMAIN merged_entries :
          k \in DOMAIN global_map.root /\ global_map.root[k] = merged_entries[k])

C5_Witness ==
  /\ pc = "returned"
  /\ merges_done = 2
  /\ DOMAIN merged_entries = Keys
  /\ global_map.root = merged_entries

\* C6: the step replica map prepared for a CommandLineJob holds exactly the
\* keys that are both in the global map and among the LFNs of the job's
\* inputs, each with the global map's value; it is what is written to the
\* job's output directory, and the preparation leaves the global map as
\* it was.
C6_FilterExact ==
  [][(pc = "yielded" /\ pc' = "prepared" /\ job.class = "CommandLineJob") =>
       LET wanted == (DOMAIN global_map.root) \cap StepLfns
       IN /\ DOMAIN step_replica_map' = wanted
          /\ \A k \in wanted : step_replica_map'[k] = global_map.root[k]
          /\ (job.outdir => step_file' = model_dump_json(step_replica_map'))
          /\ global_map' = global_map]_vars

C6_Witness ==
  /\ pc = "prepared"
  /\ job.class = "CommandLineJob"
  /\ job.outdir
  /\ DOMAIN step_replica_map = {"b"}
  /\ StepLfns = Keys
  /\ DOMAIN global_map.root = {"b"}

IsPrefix(s, t) == Len(s) <= Len(t) /\ \A i \in 1..Len(s) : s[i] = t[i]

C8_WriteRunMergeOrder ==
  job.class = "CommandLineJob" =>
    /\ IsPrefix(evlog, IF job.outdir THEN <<"write", "run", "merge">> ELSE <<"run">>)
    /\ (pc \in {"running", "ran"} =>
          evlog = IF job.outdir THEN <<"write", "run">> ELSE <<"run">>)
    /\ (pc = "prepared" /\ job.outdir =>
          evlog = <<"write">> /\ step_file = model_dump_json(step_replica_map))
    /\ (pc = "merging" => evlog = <<"write", "run", "merge">>)

C8_Witness ==
  /\ pc = "merging"
  /\ merge_todo = {}
  /\ evlog = <<"write", "run", "merge">>
  /\ new_entries # <<>>

\* C9: an entry with a local replica that an earlier step's
\* replica_map.json handed to its merge is in the global map afterwards;
\* the step replica map prepared for a later job whose only LFN input is
\* that key holds exactly that entry; and the job's exists check of the
\* LFN reference answers true when the replica's file is on disk.
C9_OutputsPropagate ==
  \A X \in DOMAIN merged_entries :
    (HasLocalReplica(merged_entries[X]) /\ pc # "merging") =>
      /\ X \in DOMAIN global_map.root
      /\ (/\ pc \in {"prepared", "running"}
          /\ job.class = "CommandLineJob"
          /\ _extract_lfns_from_inputs(job.job_order) = <<X>>)
           => /\ step_replica_map = [k \in {X} |-> merged_entries[X]]
              /\ (/\ last_access.op = "exists"
                  /\ last_access.ref = LfnRef(X)
                  /\ last_access.replica_on_disk)
                   => last_access.result = "true"

C9_Witness ==
  /\ pc = "running"
  /\ njobs = 2
  /\ merges_done = 1
  /\ global_map_path.file.state = "absent"
  /\ DOMAIN merged_entries = {"a"}
  /\ HasLocalReplica(merged_entries["a"])
  /\ _extract_lfns_from_inputs(job.job_order) = <<"a">>
  /\ DOMAIN step_replica_map = {"a"}
  /\ last_access.op = "exists"
  /\ last_access.ref = LfnRef("a")
  /\ last_access.replica_on_disk
  /\ ~last_access.name_on_disk
  /\ last_access.result = "true"

C12_GlobalMapLoadedOnce ==
  [][/\ (global_map.is_none /\ ~global_map'.is_none) =>
          /\ pc = "main"
          /\ global_map'.root =
                IF global_map_path.configured /\ global_map_path.file.state = "valid"
                  THEN model_validate_json(global_map_path.file)
                  ELSE EmptyMap
     /\ ~global_map.is_none =>
          /\ ~global_map'.is_none
          /\ (pc = "main" => global_map' = global_map)
          /\ \A k \in DOMAIN global_map.root : k \in DOMAIN global_map'.root]_vars

C12_Witness ==
  /\ pc = "iter"
  /\ run_jobs_calls = 2
  /\ merges_done = 1
  /\ global_map_path.configured
  /\ global_map_path.file.state = "valid"
  /\ global_map.root # model_validate_json(global_map_path.file)
  /\ "a" \in DOMAIN merged_entries
  /\ global_map.root["a"] = merged_entries["a"]

\* C13: when a path is configured and the document there does not parse,
\* run_jobs raises at the load: no job is yielded, prepared, run or
\* merged, and the global map stays None.
C13_MalformedFailsAtLoad ==
  (global_map_path.configured /\ global_map_path.file.state = "malformed") =>
    /\ pc \in {"main", "raised", "exited", "ended"}
    /\ njobs = 0
    /\ job = NoJob
    /\ evlog = <<>>
    /\ merges_done = 0
    /\ global_map.is_none
    /\ (pc \in {"raised", "exited"} =>
          run_jobs_error.surfaced.type = "ValidationError")

C13_Witness ==
  /\ pc = "raised"
  /\ global_map_path.configured
  /\ global_map_path.file.state = "malformed"
  /\ run_jobs_error.surfaced.type = "ValidationError"
  /\ run_jobs_calls = 1
  /\ njobs = 0

\* C14: _update_replica_map_from_job always returns to the job loop
\* without raising; when the job has no output directory or its
\* replica_map.json is absent or malformed, the global map is left as it
\* was and the loop goes on to the next job.
C14_MergeNeverFails ==
  [][/\ (pc = "ran" =>
          /\ pc' \in {"skipped", "merging"}
          /\ run_jobs_error' = run_jobs_error
          /\ ((~job.outdir \/ step_file.state # "valid") =>
                pc' = "skipped" /\ global_map' = global_map))
     /\ (pc = "skipped" =>
          pc' = "iter" /\ global_map' = global_map /\ run_jobs_error' = run_jobs_error)
     /\ (pc = "merging" =>
          pc' \in {"merging", "iter"} /\ run_jobs_error' = run_jobs_error)]_vars

C14_Witness ==
  /\ pc = "skipped"
  /\ job.class = "CommandLineJob"
  /\ job.outdir
  /\ step_file.state = "malformed"
  /\ DOMAIN global_map.root = Keys
  /\ run_jobs_error = NoRunJobsError

\* C15: when a CommandLineJob declares LFN inputs and none of them is in
\* the global map, the preparation raises nothing, the step replica map
\* is empty, the empty map is what is written to the job's output
\* directory, and the job is run.
C15_EmptyStepMapWhenNoneFound ==
  (/\ pc \in {"prepared", "running"}
   /\ job.class = "CommandLineJob"
   /\ StepLfns # {}
   /\ StepLfns \cap DOMAIN global_map.root = {})
    => /\ step_replica_map = EmptyMap
       /\ (job.outdir => step_file = model_dump_json(EmptyMap))
       /\ run_jobs_error = NoRunJobsError
       /\ (pc = "prepared" => ENABLED JobRunStart)

C15_Witness ==
  /\ pc = "running"
  /\ job.class = "CommandLineJob"
  /\ job.outdir
  /\ StepLfns = {"b"}
  /\ DOMAIN global_map.root = {"a"}
  /\ step_replica_map = EmptyMap
  /\ step_file = model_dump_json(EmptyMap)
  /\ evlog = <<"write", "run">>

\* C16 as claimed: the LFNs extracted from an input dictionary are the
\* keys of all File values found at any depth of it (in lists, records,
\* Directory listings and the secondaryFiles of a File), each once.
RECURSIVE AllFileKeys(_)
AllFileKeys(obj) ==
  (IF obj.class = "File" THEN Range(FileLfn(obj)) ELSE {})
    \cup UNION {AllFileKeys(obj.values[i]) : i \in 1..Len(obj.values)}

C16_ExtractionComplete ==
  ex_lfns.done =>
    /\ Range(ex_lfns.lfns)
         = UNION {AllFileKeys(ex_job_order[i]) : i \in 1..Len(ex_job_order)}
    /\ Len(ex_lfns.lfns) = Cardinality(Range(ex_lfns.lfns))

\* C17: resolving an LFN reference whose key is in the bound replica map
\* with at least one replica gives the path of the first replica, marked
\* local, when its scheme is file, and the first replica's URL, marked
\* remote, otherwise, whatever the later replicas are.
FsKey == StripLFN(fs_call.fn)

FsHasReplica ==
  /\ fs_call.op # "none"
  /\ FsKey \in DOMAIN fs_replica_map
  /\ fs_replica_map[FsKey].replicas # <<>>

FsFirst == fs_replica_map[FsKey].replicas[1]

C17_FirstReplicaOnly ==
  (fs_call.op = "_resolve_lfn" /\ FsHasReplica) =>
    IF FsFirst.scheme = "file"
      THEN ~fs_call.is_remote /\ fs_call.pfn = FsFirst.path
      ELSE fs_call.is_remote /\ fs_call.pfn = <<FsFirst.scheme, FsFirst.path>>

C17_Witness ==
  /\ fs_call.op = "_resolve_lfn"
  /\ fs_call.fn = LfnRef("a")
  /\ FsHasReplica
  /\ fs_replica_map["a"].replicas = <<UrlLocal2, UrlRemote>>
  /\ ~fs_call.is_remote
  /\ fs_call.pfn = UrlLocal2.path

C19_RemoteNeverChecked ==
  (FsHasReplica /\ FsFirst.scheme # "file") =>
    LET res == fs_call.result
        size_bytes == fs_replica_map[FsKey].size_bytes
    IN /\ (fs_call.op = "exists" => res.yes /\ res.raises = "none")
       /\ (fs_call.op = "isdir" => ~res.yes /\ res.raises = "none")
       /\ (fs_call.op = "open" => res.raises = "ValueError")
       /\ (fs_call.op = "glob" => res.names = <<fs_call.fn>> /\ res.raises = "none")
       /\ (fs_call.op = "size" =>
             IF size_bytes # 0
               THEN res.raises = "none" /\ res.n = size_bytes
               ELSE res.raises = "ValueError")

C19_Witness ==
  /\ fs_call.op = "size"
  /\ FsHasReplica
  /\ fs_replica_map[FsKey].replicas = <<UrlRemote, UrlLocal>>
  /\ fs_replica_map[FsKey].size_bytes = 0
  /\ fs_disk[UrlLocal.path].kind = "file"
  /\ fs_disk[FsKey].kind = "file"
  /\ fs_call.result.raises = "ValueError"

\* C20 as claimed: for an LFN reference whose first replica has the file
\* scheme, size is the size of what is at the resolved path on the local
\* filesystem, also when the entry has a size_bytes.
C20_SizeFromDisk ==
  (fs_call.op = "size" /\ FsHasReplica /\ FsFirst.scheme = "file") =>
    IF fs_disk[FsFirst.path].kind = "absent"
      THEN fs_call.result.raises = "OSError"
      ELSE fs_call.result.raises = "none"
             /\ fs_call.result.n = fs_disk[FsFirst.path].size

\* C20 amended: for such a reference exists, open and glob are answered
\* from the resolved path on the local filesystem; size is the entry's
\* size_bytes when the entry has one, whatever is at the resolved path,
\* and the size of what is at the resolved path only when it has none.
C20_SizeDeclaredFirst ==
  (FsHasReplica /\ FsFirst.scheme = "file") =>
    LET res == fs_call.result
        node == fs_disk[FsFirst.path]
        size_bytes == fs_replica_map[FsKey].size_bytes
    IN /\ (fs_call.op = "exists" => (res.yes <=> node.kind # "absent"))
       /\ (fs_call.op = "open" => (res.raises = "none" <=> node.kind = "file"))
       /\ (fs_call.op = "glob" =>
             res.names = IF node.kind # "absent" THEN <<fs_call.fn>> ELSE <<>>)
       /\ (fs_call.op = "size" =>
             IF size_bytes # 0
               THEN res.raises = "none" /\ res.n = size_bytes
               ELSE IF node.kind = "absent"
                      THEN res.raises = "OSError"
                      ELSE res.raises = "none" /\ res.n = node.size)

C20_Witness ==
  /\ fs_call.op = "size"
  /\ FsHasReplica
  /\ FsFirst = UrlLocal
  /\ fs_replica_map[FsKey].size_bytes = 7
  /\ fs_disk[UrlLocal.path] = [kind |-> "file", size |-> 5]
  /\ fs_call.result.raises = "none"
  /\ fs_call.result.n = 7

\* The File objects a visit reaches: the object and its secondaryFiles.
PmFiles ==
  {o \in {pm.obj} \cup Range(pm.obj.values) : o.class = "File"}

PmResolves(o) ==
  /\ StartsWithLFN(o.location)
  /\ StripLFN(o.location) \in DOMAIN pm.replica_map
  /\ pm.replica_map[StripLFN(o.location)].replicas # <<>>

PmDirect(o, where) ==
  /\ o.location \in DOMAIN pm.st.pathmap
  /\ pm.st.pathmap[o.location] = MapperEnt(where, where, "File", FALSE)
  /\ <<"File", o.location>> \notin pm.st.standard

\* C21 as claimed: every File whose location is an LFN with a replica in
\* the bound replica map, or a URL of any scheme other than file, is
\* mapped with staged = FALSE to its resolved location and is not handed
\* to the engine's staging.
C21_NeverStagesResolvedOrRemote ==
  pm.done =>
    \A o \in PmFiles :
      /\ (PmResolves(o) =>
            PmDirect(o, UrlStr(pm.replica_map[StripLFN(o.location)].replicas[1])))
      /\ (UrlPrefix(o.location) \notin {"", "file://"} =>
            PmDirect(o, <<"location", o.location>>))

\* C21 amended: that holds for an LFN with a replica and for a URL that
\* starts with root://, xroot://, https:// or http://; a File whose
\* location is a URL of another scheme is handed to the engine's staging.
C21_NeverStagesResolvedOrListedScheme ==
  pm.done =>
    \A o \in PmFiles :
      /\ (PmResolves(o) =>
            PmDirect(o, UrlStr(pm.replica_map[StripLFN(o.location)].replicas[1])))
      /\ (UrlPrefix(o.location) \in {"root://", "xroot://", "https://", "http://"} =>
            PmDirect(o, <<"location", o.location>>))
      /\ (UrlPrefix(o.location) \in {"s3://", "file://"} =>
            /\ <<"File", o.location>> \in pm.st.standard
            /\ pm.st.pathmap[o.location].target = <<"stagedir", o.location>>)

C21_Witness ==
  /\ pm.done
  /\ pm.staged
  /\ pm.obj.location = "xroot://h/f"
  /\ pm.obj.values # <<>>
  /\ pm.obj.values[1].class = "File"
  /\ pm.obj.values[1].location = LfnRef("a")
  /\ "a" \in DOMAIN pm.replica_map
  /\ pm.replica_map["a"].replicas = <<UrlLocal, UrlRemote>>
  /\ pm.st.pathmap[LfnRef("a")] = MapperEnt(UrlStr(UrlLocal), UrlStr(UrlLocal), "File", FALSE)
  /\ pm.st.pathmap["xroot://h/f"].staged = FALSE
  /\ pm.st.standard = {}

\* C22: a File whose location is an LFN that is not in the bound replica
\* map, or whose entry has no replicas, makes the path mapper log an
\* error or a warning and hand the object to the engine's staging; the
\* path mapper adds no entry with staged = FALSE for it.
C22_UnresolvedGoesToStandard ==
  pm.done =>
    \A o \in PmFiles :
      (StartsWithLFN(o.location) /\ ~PmResolves(o)) =>
        /\ <<"File", o.location>> \in pm.st.standard
        /\ (IF StripLFN(o.location) \in DOMAIN pm.replica_map
              THEN "warning" ELSE "error") \in pm.st.log
        /\ pm.st.pathmap[o.location]
             = MapperEnt(<<"abspath", o.location>>, <<"stagedir", o.location>>,
                         "File", pm.staged)

C22_Witness ==
  /\ pm.done
  /\ pm.obj.class = "File"
  /\ pm.obj.location = LfnRef("b")
  /\ pm.obj.values = <<>>
  /\ DOMAIN pm.replica_map = {"a"}
  /\ ~pm.staged
  /\ pm.st.log = {"error"}
  /\ pm.st.standard = {<<"File", LfnRef("b")>>}

\* C23: registering a plugin class under a name that is already
\* registered raises ValueError and leaves the plugin table, the VO
\* index and the plugin info as they were, unless override is passed:
\* then the call returns and the name maps to the class just registered.
C23_DuplicateRefusedUnlessOverride ==
  [][(/\ reg'.last.op = "register_plugin"
      /\ reg'.last.cls.is_plugin
      /\ reg'.last.cls.name \in DOMAIN reg._plugins)
       => IF reg'.last.override
            THEN /\ reg'.last.raised = "none"
                 /\ reg'._plugins[reg'.last.cls.name] = reg'.last.cls
                 /\ GetPlugin(reg', reg'.last.cls.name, NoVO) = reg'.last.cls
            ELSE /\ reg'.last.raised = "ValueError"
                 /\ reg'._plugins = reg._plugins
                 /\ reg'._vo_plugins = reg._vo_plugins
                 /\ reg'._plugin_info = reg._plugin_info]_vars

C23_Witness ==
  /\ reg.last.op = "register_plugin"
  /\ reg.last.override
  /\ reg.last.raised = "none"
  /\ reg.last.cls = [name |-> "P", vo |-> "ctao", is_plugin |-> TRUE]
  /\ "lhcb" \in DOMAIN reg._vo_plugins
  /\ "P" \in DOMAIN reg._vo_plugins["lhcb"]
  /\ reg._plugins["P"].vo = "ctao"

\* C24 as claimed: list_plugins(vo=v) returns exactly the names of the
\* plugins registered with VO v, for every v, and list_plugins() returns
\* every registered name.
C24_ListExactlyTheVO ==
  reg.last.op = "list_plugins" =>
    reg.last.listed =
      IF reg.last.vo = NoVO
        THEN DOMAIN reg._plugins
        ELSE {k \in DOMAIN reg._plugins : reg._plugins[k].vo = reg.last.vo}

\* C28 as claimed: after any sequence of registrations get_plugin(k, vo=v)
\* returns the class get_plugin(k) returns, and every name listed under
\* a VO is a plugin currently registered with that VO.
C28_VOIndexConsistent ==
  /\ \A k \in PluginNames, v \in PluginVOs :
       GetPlugin(reg, k, v) = GetPlugin(reg, k, NoVO)
  /\ \A v \in DOMAIN reg._vo_plugins :
       \A k \in DOMAIN reg._vo_plugins[v] :
         k \in DOMAIN reg._plugins /\ reg._plugins[k].vo = v

\* The requirements declared anywhere in a task, and those below its top.
RECURSIVE TaskReqs(_)
TaskReqs(task) ==
  ({task.requirements}
     \cup UNION {{task.steps[i].requirements} \cup TaskReqs(task.steps[i].run) :
                 i \in 1..Len(task.steps)}) \ {NoReq}

BelowTopReqs(task) ==
  UNION {{task.steps[i].requirements} \cup TaskReqs(task.steps[i].run) :
         i \in 1..Len(task.steps)} \ {NoReq}

\* C25 as claimed: building a submission model raises ValueError whenever
\* a ResourceRequirement of the task, of a step, of a step's run or of a
\* nested workflow declares a resourceMin above its own resourceMax, for
\* all non-negative values.
C25_MinAboveOwnMaxRejected ==
  (/\ req.built # "no"
   /\ \E r \in TaskReqs(ReqTask), resource \in ResourceNames :
        /\ r.min[resource] # NoValue
        /\ r.max[resource] # NoValue
        /\ r.min[resource] > r.max[resource])
    => req.built = "ValueError"

\* C26 as claimed: building a submission model raises ValueError whenever
\* a step, a step's run or a nested workflow declares a resourceMin above
\* the resourceMax the top-level Workflow declares for that resource.
C26_MinAboveTopMaxRejected ==
  (/\ req.built # "no"
   /\ ReqTask.class = "Workflow"
   /\ \E r \in BelowTopReqs(ReqTask), resource \in ResourceNames :
        /\ r.min[resource] # NoValue
        /\ ReqTask.requirements.max[resource] # NoValue
        /\ r.min[resource] > ReqTask.requirements.max[resource])
    => req.built = "ValueError"

\* The positions of the commands that cannot run to the end in the stage
\* that ran: not a command of the stage, or failing in execute.
JwBad ==
  {i \in 1..Len(jw.commands) :
     jw.commands[i].base \notin {jw.stage, "dual"} \/ jw.commands[i].fails}

JwFirstBad == CHOOSE i \in JwBad : \A j \in JwBad : i <= j

\* C27: pre_process and post_process run the commands in list order and
\* stop at the first bad one: a class that is not a command of the stage
\* raises TypeError and is not executed, a command whose execute raises
\* is reported as WorkflowProcessingException, no later command runs and
\* post_process does not call store_output.
C27_StopsAtFirstBadCommand ==
  (jw.stage # "none" /\ jw.has_plugin) =>
    IF JwBad = {}
      THEN /\ jw.executed = [i \in 1..Len(jw.commands) |-> i]
           /\ jw.raised = "none"
           /\ jw.stored = (jw.stage = "post")
      ELSE LET not_a_command == jw.commands[JwFirstBad].base \notin {jw.stage, "dual"}
               last == IF not_a_command THEN JwFirstBad - 1 ELSE JwFirstBad
           IN /\ jw.executed = [i \in 1..last |-> i]
              /\ jw.raised = IF not_a_command THEN "TypeError"
                                               ELSE "WorkflowProcessingException"
              /\ ~jw.stored

C27_Witness ==
  /\ jw.stage = "post"
  /\ jw.has_plugin
  /\ Len(jw.commands) = MaxCommands
  /\ jw.commands[1] = [base |-> "dual", fails |-> FALSE]
  /\ jw.commands[2] = [base |-> "post", fails |-> TRUE]
  /\ jw.commands[3] = [base |-> "post", fails |-> FALSE]
  /\ jw.executed = <<1, 2>>
  /\ jw.raised = "WorkflowProcessingException"
  /\ ~jw.stored

\* C29 as claimed: after any sequence of setJobStatus and
\* setApplicationStatus calls, commit sends one status update per
\* accumulated record; when the server accepts them the buffer is
\* emptied, and when commit raises the buffer still holds every record.
C29_CommitSendsEveryRecord ==
  jr.last.op = "commit" =>
    /\ jr.last.called
    /\ jr.last.sent = Len(jr.last.before)
    /\ IF jr.last.raised = "none"
         THEN jr.job_status_info = <<>>
         ELSE jr.job_status_info = jr.last.before

\* C30 as claimed: every key add_output_files_to_replica_map writes for
\* an output file is a bare catalog key without the "LFN:" marker, so
\* the file F is found in the written map by the step filter (the key F
\* that the extraction strips from "LFN:F") and by _resolve_lfn("LFN:F").
C30_OutputKeysAreBare ==
  (out.done /\ out.raised = "none") =>
    LET root == model_validate_json(out.file)
    IN \A F \in out.added :
         /\ \A k \in DOMAIN root : root[k] = OutputEntry(F) => ~StartsWithLFN(k)
         /\ StripLFN(LfnRef(F)) \in DOMAIN root
         /\ _resolve_lfn(root, LfnRef(F)).found

====
